---- MODULE Spec2Model ----
(***************************************************************************)
(* Model of compiler-rt/lib/builtins/atomic.c: the lock-striped fallback   *)
(* runtime for atomic accesses on arbitrary-sized memory locations.        *)
(*                                                                         *)
(* Memory is an array of bytes indexed by address.  A value of an integer  *)
(* type is a sequence of base-256 digits, least significant first; its     *)
(* object representation in memory (the "image") is that sequence in the   *)
(* byte order of the build.  The generic entry points move images, the     *)
(* sized entry points move integers.                                       *)
(***************************************************************************)
EXTENDS Integers, Sequences, FiniteSets, TLC

\* Number of concurrent caller threads.
NThreads == 2
\* Number of operations each thread issues.
MaxOps == 2

\* #define SPINLOCK_COUNT (1 << 10)
SPINLOCK_COUNT == 1024
SPINLOCK_MASK == SPINLOCK_COUNT - 1

Threads == 1..NThreads

(***************************************************************************)
(* Bit arithmetic on C integers                                            *)
(***************************************************************************)
Bit(op, x, y) ==
  CASE op = "and" -> x * y
    [] op = "or"  -> IF x + y > 0 THEN 1 ELSE 0
    [] op = "xor" -> (x + y) % 2

\* x op y on 4-bit digits.
Nibble(op, x, y) ==
    Bit(op, x % 2, y % 2)
  + 2 * Bit(op, (x \div 2) % 2, (y \div 2) % 2)
  + 4 * Bit(op, (x \div 4) % 2, (y \div 4) % 2)
  + 8 * Bit(op, (x \div 8) % 2, (y \div 8) % 2)

NibbleTable ==
  [op \in {"and", "or", "xor"} |->
     [x \in 0..15 |-> [y \in 0..15 |-> Nibble(op, x, y)]]]

\* x op y on bytes.
ByteOp(op, x, y) ==
  16 * NibbleTable[op][x \div 16][y \div 16] + NibbleTable[op][x % 16][y % 16]

\* Byte k of x in two's complement.
ByteAt(x, k) == (x \div (256 ^ k)) % 256

\* a op b on intptr_t (32 bits, two's complement).
IntOp(op, a, b) ==
  LET b0 == ByteOp(op, ByteAt(a, 0), ByteAt(b, 0))
      b1 == ByteOp(op, ByteAt(a, 1), ByteAt(b, 1))
      b2 == ByteOp(op, ByteAt(a, 2), ByteAt(b, 2))
      b3 == ByteOp(op, ByteAt(a, 3), ByteAt(b, 3))
  IN b0 + 256 * b1 + 65536 * b2
        + 16777216 * (IF b3 >= 128 THEN b3 - 256 ELSE b3)

\* hash >>= k on intptr_t: an arithmetic shift.
Shr(x, k) == x \div (2 ^ k)

\* A hash that keeps the lowest 4 bits.
lock_for_unshifted(ptr) ==
  LET low   == IntOp("and", ptr, SPINLOCK_MASK)
      hash1 == Shr(ptr, 16)
      hash2 == IntOp("xor", hash1, low)
  IN IntOp("and", hash2, SPINLOCK_MASK)

\* A hash that skips the perturbation by the higher bits.
lock_for_low_bits(ptr) == IntOp("and", Shr(ptr, 4), SPINLOCK_MASK)

(***************************************************************************)
(* Returns a lock to use for a given pointer (the index of the slot).      *)
(***************************************************************************)
lock_for_pointer(ptr) ==
  LET hash0 == Shr(ptr, 4)
      low   == IntOp("and", hash0, SPINLOCK_MASK)
      hash1 == Shr(hash0, 16)
      hash2 == IntOp("xor", hash1, low)
  IN IntOp("and", hash2, SPINLOCK_MASK)

(***************************************************************************)
(* Arithmetic of the unsigned integer types uint8_t .. __uint128_t, on     *)
(* digit sequences (least significant digit first).                        *)
(***************************************************************************)
\* The digits of a + b from digit k on, c the carry into digit k.
RECURSIVE AddFrom(_, _, _, _)
AddFrom(a, b, k, c) ==
  IF k > Len(a) THEN <<>>
  ELSE LET s == a[k] + b[k] + c
       IN <<s % 256>> \o AddFrom(a, b, k + 1, s \div 256)

\* The digits of a - b from digit k on, c the borrow out of digit k - 1.
RECURSIVE SubFrom(_, _, _, _)
SubFrom(a, b, k, c) ==
  IF k > Len(a) THEN <<>>
  ELSE LET s == a[k] - b[k] - c
       IN <<s % 256>> \o SubFrom(a, b, k + 1, IF s < 0 THEN 1 ELSE 0)

\* tmp + val with the carries between the bytes dropped.
AddNoCarry(a, b) == [k \in 1..Len(a) |-> (a[k] + b[k]) % 256]

\* tmp + val
Add(a, b) == AddFrom(a, b, 1, 0)

\* tmp - val
Sub(a, b) == SubFrom(a, b, 1, 0)

\* tmp & val, tmp | val, tmp ^ val
Logic(op, a, b) == [k \in 1..Len(a) |-> ByteOp(op, a[k], b[k])]

\* tmp op val with every bitwise op done as |.
ApplyOr(opname, a, b) ==
  CASE opname = "add" -> AddFrom(a, b, 1, 0)
    [] opname = "sub" -> SubFrom(a, b, 1, 0)
    [] OTHER -> [k \in 1..Len(a) |-> ByteOp("or", a[k], b[k])]

\* tmp op val of ATOMIC_RMW(n, lockfree, type, opname, op)
ApplyOp(opname, a, b) ==
  CASE opname = "add" -> Add(a, b)
    [] opname = "sub" -> Sub(a, b)
    [] OTHER -> Logic(opname, a, b)

Reverse(s) == [k \in 1..Len(s) |-> s[Len(s) + 1 - k]]

(***************************************************************************)
(* Build configuration: the compiler (the GCC and the clang variant of     *)
(* every function), the sizes __c11_atomic_is_lock_free answers true for,  *)
(* and the byte order of the target.                                       *)
(***************************************************************************)
Builds ==
  [cc : {"clang", "gcc"},
   lockfree : {{}, {1, 2, 4}, {1, 2, 4, 8}},
   bigEndian : BOOLEAN]

(***************************************************************************)
(* MemoryLocations of the callers: [ptr, size].  Obj16 and ObjHi map to    *)
(* slot 564; Obj8, Obj4, Obj2, Obj1 (one 16-byte block) and ObjFar map to  *)
(* slot 565; Obj3 maps to slot 566.  ObjHi has the top address bit set.    *)
(***************************************************************************)
Obj16  == [ptr |-> 74560, size |-> 16]
Obj8   == [ptr |-> 74576, size |-> 8]
Obj4   == [ptr |-> 74584, size |-> 4]
Obj2   == [ptr |-> 74588, size |-> 2]
Obj1   == [ptr |-> 74590, size |-> 1]
Obj3   == [ptr |-> 74592, size |-> 3]
ObjFar == [ptr |-> 1057600, size |-> 3]
ObjHi  == [ptr |-> -2147409088, size |-> 2]

Objects == {Obj16, Obj8, Obj4, Obj2, Obj1, Obj3, ObjFar, ObjHi}

Addrs == UNION {o.ptr .. (o.ptr + o.size - 1) : o \in Objects}

\* The widths OPTIMISED_CASES instantiates the sized entry points for.
SizedWidths == {1, 2, 4, 8, 16}

VARIABLES
  build,     \* the build configuration, fixed at Init
  locks,     \* static Lock locks[SPINLOCK_COUNT]: 0 unlocked, 1 locked
  mem,       \* the bytes of the callers' memory locations
  pc,        \* per thread: the statement it is at
  call,      \* per thread: the entry point called and its arguments
  l,         \* per thread: Lock *l (a slot index)
  idx,       \* per thread: the position of memcpy / memcmp in its buffer
  out,       \* per thread: dest / old / tmp / val, the data handed back
  expected,  \* per thread: the caller's *expected buffer
  ret,       \* per thread: the int / bool returned by compare_exchange
  nops,      \* per thread: calls that have returned
  pre,       \* history, per thread: the bytes at ptr when the call was made,
             \*   and again when the call acquired its lock
  stored,    \* history, per thread: the bytes its previous call stored at
             \*   the ptr of this call, <<>> if it was no such store
  mem0,      \* history: the memory before the first call
  smem,      \* history: the memory of the slow-path calls run one at a time
             \*   in the order in which they acquired their locks
  ser        \* history, per thread: what its call hands back in that run

\* os_version_check.c
VARIABLES
  GlobalMajor,          \* static int32_t GlobalMajor
  GlobalMinor,          \* static int32_t GlobalMinor
  GlobalSubminor,       \* static int32_t GlobalSubminor
  DispatchOnceCounter,  \* static dispatch_once_t: 0 untouched, 1 the function
                        \* is running, 2 the function has run
  probe,                \* per thread: its call of __isOSVersionAtLeast
  parses                \* history: the runs of parseSystemVersionPList

version ==
  <<GlobalMajor, GlobalMinor, GlobalSubminor, DispatchOnceCounter, probe,
    parses>>

vars ==
  <<build, locks, mem, pc, call, l, idx, out, expected, ret, nops,
    pre, stored, mem0, smem, ser, version>>

(***************************************************************************)
(* Values and object representations                                       *)
(***************************************************************************)
Zero(n) == [k \in 1..n |-> 0]
Ones(n) == [k \in 1..n |-> 255]
Small(n, v) == [k \in 1..n |-> IF k = 1 THEN v ELSE 0]
\* 0x1122334455667788 for n = 8
Pat(n) == [k \in 1..n |-> 17 * (((n - k) % 15) + 1)]
\* A value only thread t writes.
Tag(n, t) == [k \in 1..n |-> 16 * t + k]
\* The caller's buffer before the callee filled it.
Unset(n) == [k \in 1..n |-> -1]

\* *ptr = v: the image of integer v in memory.
StoreRep(v) == IF build.bigEndian THEN Reverse(v) ELSE v
\* v = *ptr: the integer an image holds.
LoadRep(img) == IF build.bigEndian THEN Reverse(img) ELSE img

\* The n bytes at p.
Image(m, p, n) == [k \in 1..n |-> m[p + k - 1]]
\* A write at p that runs one byte past the image.
PokeBeyond(m, p, img) ==
  [a \in DOMAIN m |->
     IF a >= p /\ a < p + Len(img) THEN img[a - p + 1]
     ELSE IF a = p + Len(img) THEN 255
     ELSE m[a]]

\* A write at p that also lands on the address that shares p's slot the way
\* ObjFar shares Obj2's.
PokeAliased(m, p, img) ==
  LET q == p + (ObjFar.ptr - Obj2.ptr) IN
  [a \in DOMAIN m |->
     IF a >= p /\ a < p + Len(img) THEN img[a - p + 1]
     ELSE IF a >= q /\ a < q + Len(img) THEN img[a - q + 1]
     ELSE m[a]]

\* m with the bytes of img written at p.
Poke(m, p, img) ==
  [a \in DOMAIN m |-> IF a >= p /\ a < p + Len(img) THEN img[a - p + 1] ELSE m[a]]

(***************************************************************************)
(* Lock-free dispatch                                                      *)
(***************************************************************************)
\* IS_LOCK_FREE_16 asking the compiler as the other sizes do.
IS_LOCK_FREE_HW(n) == n \in build.lockfree

\* IS_LOCK_FREE_1 .. IS_LOCK_FREE_8 ask the compiler; IS_LOCK_FREE_16 is 0.
IS_LOCK_FREE(n) == IF n = 16 THEN FALSE ELSE n \in build.lockfree

\* A switch that runs LOCK_FREE_ACTION whatever the size.
LOCK_FREE_ALWAYS(size) == TRUE

\* A switch none of whose cases runs LOCK_FREE_ACTION.
LOCK_FREE_NEVER(size) == FALSE

\* LOCK_FREE_CASES(): TRUE when the switch runs LOCK_FREE_ACTION and returns.
\* Case 16 has no action (it is commented out); other sizes have no case.
LOCK_FREE_CASES(size) ==
  CASE size \in {1, 2, 4, 8} -> IS_LOCK_FREE(size)
    [] size = 16 -> FALSE
    [] OTHER -> FALSE

Generic == {"load_c", "store_c", "compare_exchange_c", "exchange_c"}
Sized == {"load_n", "store_n", "exchange_n", "compare_exchange_n", "fetch_n"}

\* A slow path that only the generic entry points keep from the sizes that
\* are lock-free.
LockFreePathGenericOnly(c) ==
  IF c.fn \in Generic THEN LOCK_FREE_CASES(c.size) ELSE FALSE

\* Whether call c takes the lock-free path.
LockFreePath(c) ==
  IF c.fn \in Generic THEN LOCK_FREE_CASES(c.size) ELSE IS_LOCK_FREE(c.size)

NoCall ==
  [fn |-> "none", ptr |-> 0, size |-> 0, val |-> <<>>, expected |-> <<>>,
   op |-> "none"]

MkCall(fn, o, val, exp, op) ==
  [fn |-> fn, ptr |-> o.ptr, size |-> o.size, val |-> val, expected |-> exp,
   op |-> op]

\* The bytes of the caller's object that holds argument v of call c: the sized
\* entry points pass integers, the generic ones pointers to buffers.
BytesOf(c, v) == IF c.fn \in Sized THEN StoreRep(v) ELSE v

\* The value call c hands back for the bytes img it read at ptr.
ValueOf(c, img) == IF c.fn \in Sized THEN LoadRep(img) ELSE img

\* What call c does when it runs alone on memory m.
Serial(c, m) ==
  LET img == Image(m, c.ptr, c.size)
      none == [mem |-> m, out |-> Unset(c.size), expected |-> c.expected,
               ret |-> -1]
  IN CASE c.fn \in {"load_c", "load_n"} ->
            [none EXCEPT !.out = ValueOf(c, img)]
       [] c.fn \in {"store_c", "store_n"} ->
            [none EXCEPT !.mem = Poke(m, c.ptr, BytesOf(c, c.val))]
       [] c.fn \in {"exchange_c", "exchange_n"} ->
            [none EXCEPT !.mem = Poke(m, c.ptr, BytesOf(c, c.val)),
                         !.out = ValueOf(c, img)]
       [] c.fn \in {"compare_exchange_c", "compare_exchange_n"} ->
            IF img = BytesOf(c, c.expected)
            THEN [none EXCEPT !.mem = Poke(m, c.ptr, BytesOf(c, c.val)),
                              !.ret = 1]
            ELSE [none EXCEPT !.expected = ValueOf(c, img), !.ret = 0]
       [] c.fn = "fetch_n" ->
            [none EXCEPT !.mem = Poke(m, c.ptr,
                                      StoreRep(ApplyOp(c.op, LoadRep(img), c.val))),
                         !.out = LoadRep(img)]

(***************************************************************************)
(* The state before the first call: every slot unlocked, the memory M.     *)
(***************************************************************************)
ZeroMem == [a \in Addrs |-> 0]

\* No call of __isOSVersionAtLeast has been made.
NoProbe == [pc |-> "idle", Major |-> 0, Minor |-> 0, Subminor |-> 0,
            ret |-> -1, n |-> 0]

\* The statics of os_version_check.c before the first call: zero.
VersionUnset ==
  /\ GlobalMajor = 0
  /\ GlobalMinor = 0
  /\ GlobalSubminor = 0
  /\ DispatchOnceCounter = 0
  /\ probe = [t \in Threads |-> NoProbe]
  /\ parses = 0

InitBuild(B, M) ==
  /\ build \in B
  /\ locks = [s \in 0..(SPINLOCK_COUNT - 1) |-> 0]
  /\ mem \in M
  /\ mem0 = mem
  /\ smem = mem
  /\ stored = [t \in Threads |-> <<>>]
  /\ ser = [t \in Threads |-> <<>>]
  /\ pc = [t \in Threads |-> "idle"]
  /\ call = [t \in Threads |-> NoCall]
  /\ l = [t \in Threads |-> -1]
  /\ idx = [t \in Threads |-> 0]
  /\ out = [t \in Threads |-> <<>>]
  /\ expected = [t \in Threads |-> <<>>]
  /\ ret = [t \in Threads |-> -1]
  /\ nops = [t \in Threads |-> 0]
  /\ pre = [t \in Threads |-> <<>>]
  /\ VersionUnset

\* Thread t moves to statement p with its locals set; "idle" is the return.
Step(t, p, n, o, e, r) ==
  /\ pc' = [pc EXCEPT ![t] = p]
  /\ idx' = [idx EXCEPT ![t] = n]
  /\ out' = [out EXCEPT ![t] = o]
  /\ expected' = [expected EXCEPT ![t] = e]
  /\ ret' = [ret EXCEPT ![t] = r]
  /\ nops' = [nops EXCEPT ![t] = IF p = "idle" THEN @ + 1 ELSE @]
  /\ UNCHANGED <<version, build, call, pre, stored, mem0, smem, ser>>

\* Thread t only moves to statement p.
Goto(t, p) == Step(t, p, 0, out[t], expected[t], ret[t])

\* A caller invokes entry point c.
Call(t, c) ==
  /\ pc[t] = "idle"
  /\ nops[t] < MaxOps
  /\ call' = [call EXCEPT ![t] = c]
  /\ pc' = [pc EXCEPT ![t] = "entry"]
  /\ idx' = [idx EXCEPT ![t] = 0]
  /\ out' = [out EXCEPT ![t] = Unset(c.size)]
  /\ expected' = [expected EXCEPT ![t] = c.expected]
  /\ ret' = [ret EXCEPT ![t] = -1]
  /\ pre' = [pre EXCEPT ![t] = Image(mem, c.ptr, c.size)]
  /\ stored' = [stored EXCEPT ![t] =
                  IF call[t].fn \in {"store_c", "store_n"} /\ call[t].ptr = c.ptr
                  THEN BytesOf(call[t], call[t].val) ELSE <<>>]
  /\ ser' = [ser EXCEPT ![t] = <<>>]
  /\ l' = [l EXCEPT ![t] = -1]
  /\ UNCHANGED <<version, build, locks, mem, nops, mem0, smem>>

\* Critical sections in which exchange does not copy the old value out.
BodyNoRead(fn) ==
  CASE fn = "load_c" -> "memcpy_dest"
    [] fn = "store_c" -> "memcpy_src"
    [] fn = "compare_exchange_c" -> "memcmp"
    [] fn = "exchange_c" -> "memcpy_val"
    [] fn = "exchange_n" -> "write"
    [] fn = "store_n" -> "write"
    [] fn = "compare_exchange_n" -> "compare"
    [] OTHER -> "read"

\* The first statement of each function's critical section.
Body(fn) ==
  CASE fn = "load_c" -> "memcpy_dest"
    [] fn = "store_c" -> "memcpy_src"
    [] fn = "compare_exchange_c" -> "memcmp"
    [] fn = "exchange_c" -> "memcpy_old"
    [] fn = "store_n" -> "write"
    [] fn = "compare_exchange_n" -> "compare"
    [] OTHER -> "read"

\* A lock of its own for every thread.
SlowPathPrivate(t) ==
  /\ pc[t] = "entry"
  /\ ~LockFreePath(call[t])
  /\ l' = [l EXCEPT ![t] = t]
  /\ Goto(t, "lock")
  /\ UNCHANGED <<locks, mem>>

\* One lock for every pointer.
SlowPathGlobal(t) ==
  /\ pc[t] = "entry"
  /\ ~LockFreePath(call[t])
  /\ l' = [l EXCEPT ![t] = 0]
  /\ Goto(t, "lock")
  /\ UNCHANGED <<locks, mem>>

\* Lock *l = lock_for_pointer(ptr);
SlowPath(t) ==
  /\ pc[t] = "entry"
  /\ ~LockFreePath(call[t])
  /\ l' = [l EXCEPT ![t] = lock_for_pointer(call[t].ptr)]
  /\ Goto(t, "lock")
  /\ UNCHANGED <<locks, mem>>

\* lock(l) that does not wait for the slot to be unlocked.
lock_unguarded(t) ==
  /\ pc[t] = "lock"
  /\ locks' = [locks EXCEPT ![l[t]] = 1]
  /\ pc' = [pc EXCEPT ![t] = Body(call[t].fn)]
  /\ pre' = [pre EXCEPT ![t] = Image(mem, call[t].ptr, call[t].size)]
  /\ smem' = Serial(call[t], smem).mem
  /\ ser' = [ser EXCEPT ![t] = [Serial(call[t], smem) EXCEPT !.mem = <<>>]]
  /\ UNCHANGED <<version, build, mem, call, l, idx, out, expected, ret, nops, stored, mem0>>

\* lock(l) that leaves the slot unlocked.
lock_stale(t) ==
  /\ pc[t] = "lock"
  /\ locks[l[t]] = 0
  /\ pc' = [pc EXCEPT ![t] = Body(call[t].fn)]
  /\ pre' = [pre EXCEPT ![t] = Image(mem, call[t].ptr, call[t].size)]
  /\ smem' = Serial(call[t], smem).mem
  /\ ser' = [ser EXCEPT ![t] = [Serial(call[t], smem) EXCEPT !.mem = <<>>]]
  /\ UNCHANGED <<version, build, locks, mem, call, l, idx, out, expected, ret, nops,
                 stored, mem0>>

\* lock(l) with the sense of the FreeBSD semaphore (1 is free, 0 is taken)
\* on the zero-initialised table.
lock_inverted(t) ==
  /\ pc[t] = "lock"
  /\ locks[l[t]] = 1
  /\ locks' = [locks EXCEPT ![l[t]] = 0]
  /\ pc' = [pc EXCEPT ![t] = Body(call[t].fn)]
  /\ pre' = [pre EXCEPT ![t] = Image(mem, call[t].ptr, call[t].size)]
  /\ smem' = Serial(call[t], smem).mem
  /\ ser' = [ser EXCEPT ![t] = [Serial(call[t], smem) EXCEPT !.mem = <<>>]]
  /\ UNCHANGED <<version, build, mem, call, l, idx, out, expected, ret, nops, stored, mem0>>

\* lock(l) that lets the waiters in by turns: a thread waits while one that
\* has completed fewer calls waits for the same slot.
lock_in_turn(t) ==
  /\ pc[t] = "lock"
  /\ locks[l[t]] = 0
  /\ \A u \in Threads :
       pc[u] = "lock" /\ l[u] = l[t] => nops[t] <= nops[u]
  /\ locks' = [locks EXCEPT ![l[t]] = 1]
  /\ pc' = [pc EXCEPT ![t] = Body(call[t].fn)]
  /\ pre' = [pre EXCEPT ![t] = Image(mem, call[t].ptr, call[t].size)]
  /\ smem' = Serial(call[t], smem).mem
  /\ ser' = [ser EXCEPT ![t] = [Serial(call[t], smem) EXCEPT !.mem = <<>>]]
  /\ UNCHANGED <<version, build, mem, call, l, idx, out, expected, ret, nops, stored, mem0>>

\* lock(l): the compare-exchange of the slot from unlocked to locked succeeds.
lock(t) ==
  /\ pc[t] = "lock"
  /\ locks[l[t]] = 0
  /\ locks' = [locks EXCEPT ![l[t]] = 1]
  /\ pc' = [pc EXCEPT ![t] = Body(call[t].fn)]
  /\ pre' = [pre EXCEPT ![t] = Image(mem, call[t].ptr, call[t].size)]
  /\ smem' = Serial(call[t], smem).mem
  /\ ser' = [ser EXCEPT ![t] = [Serial(call[t], smem) EXCEPT !.mem = <<>>]]
  /\ UNCHANGED <<version, build, mem, call, l, idx, out, expected, ret, nops, stored, mem0>>

\* A return without unlock(l).
unlock_keeps(t) ==
  /\ pc[t] = "unlock"
  /\ Goto(t, "idle")
  /\ UNCHANGED <<locks, mem, l>>

\* unlock(l) that stores to the slot only for a releasing memory order
\* (release, acq_rel, seq_cst).
unlock_if_release(t) ==
  /\ pc[t] = "unlock"
  /\ locks' = [locks EXCEPT ![l[t]] = IF call[t].order[1] >= 3 THEN 0 ELSE @]
  /\ Goto(t, "idle")
  /\ UNCHANGED <<mem, l>>

\* unlock(l), then the function returns.
unlock(t) ==
  /\ pc[t] = "unlock"
  /\ locks' = [locks EXCEPT ![l[t]] = 0]
  /\ Goto(t, "idle")
  /\ UNCHANGED <<mem, l>>

(***************************************************************************)
(* The generic entry points.  memcpy and memcmp move one byte per step.    *)
(***************************************************************************)
\* memcpy that stops one byte short of size.
ShortCopy(t) == idx[t] + 2 >= call[t].size

\* The last byte of a memcpy / memcmp of call[t].size bytes.
LastByte(t) == idx[t] + 1 = call[t].size

\* A load that copies the bytes without taking the lock of its location.
load_c_unlocked(t) ==
  /\ call[t].fn = "load_c"
  /\ \/ /\ pc[t] = "entry"
        /\ Goto(t, "memcpy_dest")
        /\ UNCHANGED <<locks, mem, l>>
     \/ /\ pc[t] = "memcpy_dest"
        /\ Step(t, IF ~LastByte(t) THEN "memcpy_dest"
                   ELSE IF l[t] = -1 THEN "idle" ELSE "unlock",
                IF LastByte(t) THEN 0 ELSE idx[t] + 1,
                [out[t] EXCEPT ![idx[t] + 1] = mem[call[t].ptr + idx[t]]],
                expected[t], ret[t])
        /\ UNCHANGED <<locks, mem, l>>

\* void __atomic_load_c(int size, void *src, void *dest, int model)
atomic_load_c(t) ==
  /\ call[t].fn = "load_c"
  /\ \/ /\ pc[t] = "entry"
        /\ LOCK_FREE_CASES(call[t].size)
        \* *((type *)dest) = __c11_atomic_load((_Atomic(type) *)src, model);
        /\ Step(t, "idle", 0, Image(mem, call[t].ptr, call[t].size),
                expected[t], ret[t])
        /\ UNCHANGED <<locks, mem, l>>
     \/ /\ pc[t] = "memcpy_dest"
        \* memcpy(dest, src, size);
        /\ Step(t, IF LastByte(t) THEN "unlock" ELSE "memcpy_dest",
                IF LastByte(t) THEN 0 ELSE idx[t] + 1,
                [out[t] EXCEPT ![idx[t] + 1] = mem[call[t].ptr + idx[t]]],
                expected[t], ret[t])
        /\ UNCHANGED <<locks, mem, l>>

\* void __atomic_store_c(int size, void *dest, void *src, int model)
atomic_store_c(t) ==
  /\ call[t].fn = "store_c"
  /\ \/ /\ pc[t] = "entry"
        /\ LOCK_FREE_CASES(call[t].size)
        \* __c11_atomic_store((_Atomic(type) *)dest, *(type *)src, model);
        /\ mem' = Poke(mem, call[t].ptr, call[t].val)
        /\ Goto(t, "idle")
        /\ UNCHANGED <<locks, l>>
     \/ /\ pc[t] = "memcpy_src"
        \* memcpy(dest, src, size);
        /\ mem' = [mem EXCEPT ![call[t].ptr + idx[t]] = call[t].val[idx[t] + 1]]
        /\ Step(t, IF LastByte(t) THEN "unlock" ELSE "memcpy_src",
                IF LastByte(t) THEN 0 ELSE idx[t] + 1,
                out[t], expected[t], ret[t])
        /\ UNCHANGED <<locks, l>>

\* A compare_exchange that writes desired without comparing.
compare_exchange_blind(t) ==
  /\ call[t].fn = "compare_exchange_c"
  /\ pc[t] = "entry"
  /\ mem' = Poke(mem, call[t].ptr, call[t].val)
  /\ Step(t, "idle", 0, out[t], expected[t], 1)
  /\ UNCHANGED <<locks, l>>

\* int __atomic_compare_exchange_c(int size, void *ptr, void *expected,
\*                                 void *desired, int success, int failure)
atomic_compare_exchange_c(t) ==
  /\ call[t].fn = "compare_exchange_c"
  /\ \/ /\ pc[t] = "entry"
        /\ LOCK_FREE_CASES(call[t].size)
        \* return __c11_atomic_compare_exchange_strong(ptr, expected, *desired, ..)
        \* return __atomic_compare_exchange_n(ptr, expected, *desired, true, ..)
        /\ IF Image(mem, call[t].ptr, call[t].size) = expected[t]
           THEN /\ mem' = Poke(mem, call[t].ptr, call[t].val)
                /\ Step(t, "idle", 0, out[t], expected[t], 1)
           ELSE /\ mem' = mem
                /\ Step(t, "idle", 0, out[t],
                        Image(mem, call[t].ptr, call[t].size), 0)
        /\ UNCHANGED <<locks, l>>
     \/ /\ pc[t] = "entry"
        /\ LOCK_FREE_CASES(call[t].size)
        \* GCC: the builtin is called with weak = true, and a weak
        \* compare-exchange may fail although the values are equal.
        /\ build.cc = "gcc"
        /\ Image(mem, call[t].ptr, call[t].size) = expected[t]
        /\ Step(t, "idle", 0, out[t], Image(mem, call[t].ptr, call[t].size), 0)
        /\ UNCHANGED <<locks, mem, l>>
     \/ /\ pc[t] = "memcmp"
        \* if (memcmp(ptr, expected, size) == 0)
        /\ Step(t,
                IF mem[call[t].ptr + idx[t]] # expected[t][idx[t] + 1]
                THEN "memcpy_expected"
                ELSE IF LastByte(t) THEN "memcpy_desired" ELSE "memcmp",
                IF mem[call[t].ptr + idx[t]] = expected[t][idx[t] + 1]
                   /\ ~LastByte(t)
                THEN idx[t] + 1 ELSE 0,
                out[t], expected[t], ret[t])
        /\ UNCHANGED <<locks, mem, l>>
     \/ /\ pc[t] = "memcpy_desired"
        \* memcpy(ptr, desired, size); unlock(l); return 1;
        /\ mem' = [mem EXCEPT ![call[t].ptr + idx[t]] = call[t].val[idx[t] + 1]]
        /\ Step(t, IF LastByte(t) THEN "unlock" ELSE "memcpy_desired",
                IF LastByte(t) THEN 0 ELSE idx[t] + 1,
                out[t], expected[t], IF LastByte(t) THEN 1 ELSE ret[t])
        /\ UNCHANGED <<locks, l>>
     \/ /\ pc[t] = "memcpy_expected"
        \* memcpy(expected, ptr, size); unlock(l); return 0;
        /\ Step(t, IF LastByte(t) THEN "unlock" ELSE "memcpy_expected",
                IF LastByte(t) THEN 0 ELSE idx[t] + 1,
                out[t],
                [expected[t] EXCEPT ![idx[t] + 1] = mem[call[t].ptr + idx[t]]],
                IF LastByte(t) THEN 0 ELSE ret[t])
        /\ UNCHANGED <<locks, mem, l>>

\* void __atomic_exchange_c(int size, void *ptr, void *val, void *old, int model)
atomic_exchange_c(t) ==
  /\ call[t].fn = "exchange_c"
  /\ \/ /\ pc[t] = "entry"
        /\ LOCK_FREE_CASES(call[t].size)
        \* *(type *)old = __c11_atomic_exchange((_Atomic(type) *)ptr, *(type *)val, ..)
        /\ mem' = Poke(mem, call[t].ptr, call[t].val)
        /\ Step(t, "idle", 0, Image(mem, call[t].ptr, call[t].size),
                expected[t], ret[t])
        /\ UNCHANGED <<locks, l>>
     \/ /\ pc[t] = "memcpy_old"
        \* memcpy(old, ptr, size);
        /\ Step(t, IF LastByte(t) THEN "memcpy_val" ELSE "memcpy_old",
                IF LastByte(t) THEN 0 ELSE idx[t] + 1,
                [out[t] EXCEPT ![idx[t] + 1] = mem[call[t].ptr + idx[t]]],
                expected[t], ret[t])
        /\ UNCHANGED <<locks, mem, l>>
     \/ /\ pc[t] = "memcpy_val"
        \* memcpy(ptr, val, size);
        /\ mem' = [mem EXCEPT ![call[t].ptr + idx[t]] = call[t].val[idx[t] + 1]]
        /\ Step(t, IF LastByte(t) THEN "unlock" ELSE "memcpy_val",
                IF LastByte(t) THEN 0 ELSE idx[t] + 1,
                out[t], expected[t], ret[t])
        /\ UNCHANGED <<locks, l>>

(***************************************************************************)
(* The sized entry points, OPTIMISED_CASE(n, lockfree, type); an access to *)
(* *ptr of the type is one step.                                           *)
(***************************************************************************)
\* type __atomic_load_##n(type *src, int model)
atomic_load_n(t) ==
  /\ call[t].fn = "load_n"
  /\ \/ /\ pc[t] = "entry"
        /\ IS_LOCK_FREE(call[t].size)
        \* return __c11_atomic_load((_Atomic(type) *)src, model);
        /\ Step(t, "idle", 0, LoadRep(Image(mem, call[t].ptr, call[t].size)),
                expected[t], ret[t])
     \/ /\ pc[t] = "read"
        \* type val = *src;
        /\ Step(t, "unlock", 0, LoadRep(Image(mem, call[t].ptr, call[t].size)),
                expected[t], ret[t])
  /\ UNCHANGED <<locks, mem, l>>

\* void __atomic_store_##n(type *dest, type val, int model)
atomic_store_n(t) ==
  /\ call[t].fn = "store_n"
  /\ \/ /\ pc[t] = "entry"
        /\ IS_LOCK_FREE(call[t].size)
        \* __c11_atomic_store((_Atomic(type) *)dest, val, model);
        /\ Goto(t, "idle")
     \/ /\ pc[t] = "write"
        \* *dest = val;
        /\ Goto(t, "unlock")
  /\ mem' = Poke(mem, call[t].ptr, StoreRep(call[t].val))
  /\ UNCHANGED <<locks, l>>

\* type __atomic_exchange_##n(type *dest, type val, int model)
atomic_exchange_n(t) ==
  /\ call[t].fn = "exchange_n"
  /\ \/ /\ pc[t] = "entry"
        /\ IS_LOCK_FREE(call[t].size)
        \* return __c11_atomic_exchange((_Atomic(type) *)dest, val, model);
        /\ mem' = Poke(mem, call[t].ptr, StoreRep(call[t].val))
        /\ Step(t, "idle", 0, LoadRep(Image(mem, call[t].ptr, call[t].size)),
                expected[t], ret[t])
     \/ /\ pc[t] = "read"
        \* type tmp = *dest;
        /\ mem' = mem
        /\ Step(t, "write", 0, LoadRep(Image(mem, call[t].ptr, call[t].size)),
                expected[t], ret[t])
     \/ /\ pc[t] = "write"
        \* *dest = val;
        /\ mem' = Poke(mem, call[t].ptr, StoreRep(call[t].val))
        /\ Goto(t, "unlock")
  /\ UNCHANGED <<locks, l>>

\* bool __atomic_compare_exchange_##n(type *ptr, type *expected, type desired,
\*                                    int success, int failure)
atomic_compare_exchange_n(t) ==
  /\ call[t].fn = "compare_exchange_n"
  /\ \/ /\ pc[t] = "entry"
        /\ IS_LOCK_FREE(call[t].size)
        \* return __c11_atomic_compare_exchange_strong(ptr, expected, desired, ..)
        \* return __atomic_compare_exchange_n(ptr, expected, desired, true, ..)
        /\ IF LoadRep(Image(mem, call[t].ptr, call[t].size)) = expected[t]
           THEN /\ mem' = Poke(mem, call[t].ptr, StoreRep(call[t].val))
                /\ Step(t, "idle", 0, out[t], expected[t], 1)
           ELSE /\ mem' = mem
                /\ Step(t, "idle", 0, out[t],
                        LoadRep(Image(mem, call[t].ptr, call[t].size)), 0)
     \/ /\ pc[t] = "entry"
        /\ IS_LOCK_FREE(call[t].size)
        \* GCC: weak = true, the compare-exchange may fail on equal values.
        /\ build.cc = "gcc"
        /\ LoadRep(Image(mem, call[t].ptr, call[t].size)) = expected[t]
        /\ mem' = mem
        /\ Step(t, "idle", 0, out[t],
                LoadRep(Image(mem, call[t].ptr, call[t].size)), 0)
     \/ /\ pc[t] = "compare"
        \* if (*ptr == *expected)
        /\ mem' = mem
        /\ Goto(t, IF LoadRep(Image(mem, call[t].ptr, call[t].size)) = expected[t]
                   THEN "write_desired" ELSE "write_expected")
     \/ /\ pc[t] = "write_desired"
        \* *ptr = desired; unlock(l); return true;
        /\ mem' = Poke(mem, call[t].ptr, StoreRep(call[t].val))
        /\ Step(t, "unlock", 0, out[t], expected[t], 1)
     \/ /\ pc[t] = "write_expected"
        \* *expected = *ptr; unlock(l); return false;
        /\ mem' = mem
        /\ Step(t, "unlock", 0, out[t],
                LoadRep(Image(mem, call[t].ptr, call[t].size)), 0)
  /\ UNCHANGED <<locks, l>>

\* type __atomic_fetch_##opname##_##n(type *ptr, type val, int model)
atomic_fetch_n(t) ==
  /\ call[t].fn = "fetch_n"
  /\ \/ /\ pc[t] = "entry"
        /\ IS_LOCK_FREE(call[t].size)
        \* return __c11_atomic_fetch_##opname((_Atomic(type) *)ptr, val, model);
        /\ mem' = Poke(mem, call[t].ptr,
                       StoreRep(ApplyOp(call[t].op,
                                        LoadRep(Image(mem, call[t].ptr, call[t].size)),
                                        call[t].val)))
        /\ Step(t, "idle", 0, LoadRep(Image(mem, call[t].ptr, call[t].size)),
                expected[t], ret[t])
     \/ /\ pc[t] = "read"
        \* type tmp = *ptr;
        /\ mem' = mem
        /\ Step(t, "write", 0, LoadRep(Image(mem, call[t].ptr, call[t].size)),
                expected[t], ret[t])
     \/ /\ pc[t] = "write"
        \* *ptr = tmp op val;
        /\ mem' = Poke(mem, call[t].ptr,
                       StoreRep(ApplyOp(call[t].op, out[t], call[t].val)))
        /\ Goto(t, "unlock")
  /\ UNCHANGED <<locks, l>>

\* Every step of a call after its entry.
Run(t) ==
  \/ SlowPath(t) \/ lock(t) \/ unlock(t)
  \/ atomic_load_c(t) \/ atomic_store_c(t)
  \/ atomic_compare_exchange_c(t) \/ atomic_exchange_c(t)
  \/ atomic_load_n(t) \/ atomic_store_n(t) \/ atomic_exchange_n(t)
  \/ atomic_compare_exchange_n(t) \/ atomic_fetch_n(t)

(***************************************************************************)
(* Callers                                                                 *)
(***************************************************************************)
FetchOps == {"add", "sub", "and", "or", "xor"}

\* The integer of width n a caller passes, by name; "tag" is thread t's own.
ValOf(name, n, t) ==
  CASE name = "zero" -> Zero(n)
    [] name = "ones" -> Ones(n)
    [] name = "one"  -> Small(n, 1)
    [] name = "five" -> Small(n, 5)
    [] name = "pat"  -> Pat(n)
    [] name = "tag"  -> Tag(n, t)

\* Thread t calls a generic entry point on object o: V names the values
\* stored, E those expected, D those desired.
CallGeneric(t, o, V, E, D) ==
  \/ Call(t, MkCall("load_c", o, <<>>, <<>>, "none"))
  \/ \E v \in V :
       Call(t, MkCall("store_c", o, StoreRep(ValOf(v, o.size, t)), <<>>, "none"))
  \/ \E v \in V :
       Call(t, MkCall("exchange_c", o, StoreRep(ValOf(v, o.size, t)), <<>>, "none"))
  \/ \E e \in E, d \in D :
       Call(t, MkCall("compare_exchange_c", o, StoreRep(ValOf(d, o.size, t)),
                      StoreRep(ValOf(e, o.size, t)), "none"))

\* Thread t calls a sized entry point on object o (there is none for a width
\* outside SizedWidths); F is the fetch-and-op calls made, R names their
\* operands.
CallSized(t, o, V, E, D, F, R) ==
  /\ o.size \in SizedWidths
  /\ \/ Call(t, MkCall("load_n", o, <<>>, <<>>, "none"))
     \/ \E v \in V : Call(t, MkCall("store_n", o, ValOf(v, o.size, t), <<>>, "none"))
     \/ \E v \in V : Call(t, MkCall("exchange_n", o, ValOf(v, o.size, t), <<>>, "none"))
     \/ \E e \in E, d \in D :
          Call(t, MkCall("compare_exchange_n", o, ValOf(d, o.size, t),
                         ValOf(e, o.size, t), "none"))
     \/ \E op \in F, r \in R :
          Call(t, MkCall("fetch_n", o, ValOf(r, o.size, t), <<>>, op))

(***************************************************************************)
(* SpecSeq: one caller, one object, every entry point in every build.      *)
(***************************************************************************)
SeqObjects == {Obj16, Obj8, Obj4, Obj2, Obj1, Obj3}
SeqV == {"zero", "ones", "pat"}
SeqD == {"one", "pat"}
SeqR == {"one", "five", "ones"}

CallSeq(t) ==
  \E o \in SeqObjects :
    /\ call[t].fn # "none" => call[t].ptr = o.ptr
    /\ \/ CallGeneric(t, o, SeqV, SeqV, SeqD)
       \/ CallSized(t, o, SeqV, SeqV, SeqD, FetchOps, SeqR)

InitSeq == InitBuild(Builds, {ZeroMem})

NextSeq == CallSeq(1) \/ Run(1)

SpecSeq == InitSeq /\ [][NextSeq]_vars

(***************************************************************************)
(* Spec: NThreads callers on the slow path.  Obj2 and ObjFar are distinct   *)
(* addresses that share slot 565, Obj3 has slot 566 to itself.             *)
(***************************************************************************)
\* A build in which no size is lock-free; on the slow path the compilers'
\* variants are the same statements, and no object here is accessed through
\* both the generic and the sized entry points.
SlowBuilds == {b \in Builds : b.lockfree = {} /\ b.cc = "clang" /\ ~b.bigEndian}

CallConc(t) ==
  \/ CallSized(t, Obj2, {"tag"}, {"zero"}, {"tag"}, {"add"}, {"one"})
  \/ CallGeneric(t, ObjFar, {"tag"}, {"zero"}, {"tag"})
  \/ Call(t, MkCall("store_c", Obj3, StoreRep(Tag(3, t)), <<>>, "none"))

Init == InitBuild(SlowBuilds, {ZeroMem})

Next == \E t \in Threads : CallConc(t) \/ Run(t)

Spec == Init /\ [][Next]_vars

(***************************************************************************)
(* SpecFetchAdd: every caller calls fetch_add(ptr, 1) on one location that *)
(* is not lock-free, MaxOps times.                                         *)
(***************************************************************************)
OnesMem == [a \in Addrs |-> 255]

\* No caller has called with a ptr other than p.
OnlyPtr(p) == \A u \in Threads : call[u].fn # "none" => call[u].ptr = p

CallFetchAdd(t) ==
  \E o \in {Obj16, Obj8, Obj4, Obj2, Obj1} :
    /\ ~IS_LOCK_FREE(o.size)
    /\ OnlyPtr(o.ptr)
    /\ Call(t, MkCall("fetch_n", o, Small(o.size, 1), <<>>, "add"))

InitFetchAdd == InitBuild(Builds, {ZeroMem, OnesMem})

NextFetchAdd ==
  \E t \in Threads :
    \/ CallFetchAdd(t)
    \/ SlowPath(t) \/ lock(t) \/ atomic_fetch_n(t) \/ unlock(t)

SpecFetchAdd == InitFetchAdd /\ [][NextFetchAdd]_vars

(***************************************************************************)
(* SpecExchange: every caller exchanges one value of its own into one      *)
(* location, through the generic or the sized entry point.                 *)
(***************************************************************************)
\* The value caller t writes: 0x1122334455667788 for caller 1 and n = 8.
ExVal(n, t) == IF t = 1 THEN Pat(n) ELSE Tag(n, t)

CallExchange(t) ==
  \E o \in {Obj16, Obj8, Obj3} :
    /\ nops[t] = 0
    /\ OnlyPtr(o.ptr)
    /\ \/ Call(t, MkCall("exchange_c", o, StoreRep(ExVal(o.size, t)), <<>>, "none"))
       \/ /\ o.size \in SizedWidths
          /\ Call(t, MkCall("exchange_n", o, ExVal(o.size, t), <<>>, "none"))

InitExchange == InitBuild(Builds, {ZeroMem, OnesMem})

NextExchange ==
  \E t \in Threads :
    \/ CallExchange(t)
    \/ SlowPath(t) \/ lock(t) \/ unlock(t)
    \/ atomic_exchange_c(t) \/ atomic_exchange_n(t)

SpecExchange == InitExchange /\ [][NextExchange]_vars

(***************************************************************************)
(* SpecDispatch: one call by one caller, of every entry point, on every    *)
(* size, in every build, those whose hardware has lock-free 16-byte        *)
(* atomics included.                                                       *)
(***************************************************************************)
\* The builds, with the hardware that could do 16 bytes lock-free as well.
HwBuilds ==
  [cc : {"clang", "gcc"},
   lockfree : {{}, {1, 2, 4}, {1, 2, 4, 8}, {1, 2, 4, 8, 16}},
   bigEndian : BOOLEAN]

\* A location of a size the switch of LOCK_FREE_CASES has no case for.
Obj32 == [ptr |-> 74624, size |-> 32]

DispatchObjects == {Obj32, Obj16, Obj8, Obj4, Obj2, Obj1, Obj3}

DispatchMem ==
  [a \in UNION {o.ptr .. (o.ptr + o.size - 1) : o \in DispatchObjects} |-> 0]

CallDispatch(t) ==
  \E o \in DispatchObjects :
    /\ nops[t] = 0
    /\ \/ CallGeneric(t, o, {"pat"}, {"zero", "pat"}, {"ones"})
       \/ CallSized(t, o, {"pat"}, {"zero", "pat"}, {"ones"}, FetchOps, {"one"})

InitDispatch == InitBuild(HwBuilds, {DispatchMem})

NextDispatch == CallDispatch(1) \/ Run(1)

SpecDispatch == InitDispatch /\ [][NextDispatch]_vars


(***************************************************************************)
(* SpecHash: callers load single bytes at addresses spread over the whole  *)
(* range of intptr_t, always through the lock of the address.              *)
(***************************************************************************)
HashPtrs ==
  {0, 15, 16, 17, 16368, 16384, 74560, 1048575, 1048576, 1048592, 1057600,
   1073741808, 2147483632, 2147483647,
   -1, -16, -17, -1048576, -1048577, -2147409088, -2147483647 - 1}

HashMem == [a \in HashPtrs |-> 0]

CallHash(t) ==
  \E p \in HashPtrs :
    /\ nops[t] = 0
    /\ Call(t, MkCall("load_c", [ptr |-> p, size |-> 1], <<>>, <<>>, "none"))

InitHash == InitBuild(SlowBuilds, {HashMem})

NextHash ==
  \E t \in Threads :
    \/ CallHash(t)
    \/ SlowPath(t) \/ lock(t) \/ atomic_load_c(t) \/ unlock(t)

SpecHash == InitHash /\ [][NextHash]_vars


(***************************************************************************)
(* SpecLive: every thread makes MaxOps calls, to two locations that share  *)
(* a lock, and every thread that can take a step eventually takes one.  A  *)
(* failed iteration of the loop of lock changes nothing and is a           *)
(* stuttering step.                                                        *)
(***************************************************************************)
CallLive(t) ==
  \/ Call(t, MkCall("store_c", ObjFar, StoreRep(Tag(3, t)), <<>>, "none"))
  \/ Call(t, MkCall("fetch_n", Obj2, Small(2, 1), <<>>, "add"))

RunLive(t) ==
  \/ SlowPath(t) \/ lock(t) \/ unlock(t)
  \/ atomic_store_c(t) \/ atomic_fetch_n(t)

InitLive == InitBuild(SlowBuilds, {ZeroMem})

NextLive == \E t \in Threads : CallLive(t) \/ RunLive(t)

SpecLive ==
  /\ InitLive
  /\ [][NextLive]_vars
  /\ \A t \in Threads : WF_vars(CallLive(t) \/ RunLive(t))


(***************************************************************************)
(* SpecTwin: caller 1 makes one call of a generic entry point with size n  *)
(* on an object, caller 2 the call of the sized entry point for n with the *)
(* same arguments on a twin of the object: the same bytes under a lock of  *)
(* its own, so that both calls start from the same memory and lock state.  *)
(***************************************************************************)
TwinObjects == {Obj16, Obj8, Obj4, Obj2, Obj1}

Twin(o) == [ptr |-> o.ptr + 256, size |-> o.size]

TwinMem ==
  [a \in UNION {(o.ptr .. (o.ptr + o.size - 1))
                  \cup (Twin(o).ptr .. (Twin(o).ptr + o.size - 1)) :
                o \in TwinObjects} |-> 0]

\* The sized entry point of a generic one.
SizedOf(fn) ==
  CASE fn = "load_c" -> "load_n"
    [] fn = "store_c" -> "store_n"
    [] fn = "exchange_c" -> "exchange_n"
    [] fn = "compare_exchange_c" -> "compare_exchange_n"

\* Call c of a sized entry point has the arguments of generic call g, on
\* the twin of g's object.
SameArguments(c, g) ==
  /\ c.fn = SizedOf(g.fn)
  /\ BytesOf(c, c.val) = g.val
  /\ BytesOf(c, c.expected) = g.expected

CallTwinGeneric ==
  \E o \in TwinObjects :
    /\ nops[1] = 0
    /\ CallGeneric(1, o, {"pat"}, {"zero", "pat"}, {"ones"})

CallTwinSized ==
  \E o \in TwinObjects :
    /\ nops[2] = 0
    /\ call[1].fn # "none"
    /\ call[1].ptr = o.ptr
    /\ CallSized(2, Twin(o), {"pat"}, {"zero", "pat"}, {"ones"}, {}, {})
    /\ SameArguments(call'[2], call[1])

InitTwin == InitBuild(Builds, {TwinMem})

NextTwin ==
  \/ CallTwinGeneric \/ CallTwinSized
  \/ \E t \in Threads :
       \/ SlowPath(t) \/ lock(t) \/ unlock(t)
       \/ atomic_load_c(t) \/ atomic_store_c(t)
       \/ atomic_compare_exchange_c(t) \/ atomic_exchange_c(t)
       \/ atomic_load_n(t) \/ atomic_store_n(t)
       \/ atomic_exchange_n(t) \/ atomic_compare_exchange_n(t)

SpecTwin == InitTwin /\ [][NextTwin]_vars


(***************************************************************************)
(* SpecTable: the lock table of each platform (FreeBSD semaphores, Apple   *)
(* OSSpinLock, the portable spinlock) under stores to three locations.     *)
(***************************************************************************)
OsBuilds ==
  [cc : {"clang"}, lockfree : {{}}, bigEndian : {FALSE},
   os : {"freebsd", "apple", "other"}]

\* The flag of an unlocked slot as the static initialiser writes it: always
\* zero.
UnlockedZero(os) == 0

\* The flag of an unlocked slot: _count = 1 in {0, 1, 0} on FreeBSD,
\* OS_SPINLOCK_INIT = 0 on Apple, 0 for the portable spinlock.
UnlockedFlag(os) == IF os = "freebsd" THEN 1 ELSE 0

LockedFlag(os) == 1 - UnlockedFlag(os)

\* lock(l) of the platform: the compare-exchange from unlocked to locked
\* succeeds (a waiter sleeps in _umtx_op or spins until then).
platform_lock(t) ==
  /\ pc[t] = "lock"
  /\ locks[l[t]] = UnlockedFlag(build.os)
  /\ locks' = [locks EXCEPT ![l[t]] = LockedFlag(build.os)]
  /\ pc' = [pc EXCEPT ![t] = Body(call[t].fn)]
  /\ pre' = [pre EXCEPT ![t] = Image(mem, call[t].ptr, call[t].size)]
  /\ smem' = Serial(call[t], smem).mem
  /\ ser' = [ser EXCEPT ![t] = [Serial(call[t], smem) EXCEPT !.mem = <<>>]]
  /\ UNCHANGED <<version, build, mem, call, l, idx, out, expected, ret, nops, stored, mem0>>

\* unlock(l) of the platform, then the function returns.
platform_unlock(t) ==
  /\ pc[t] = "unlock"
  /\ locks' = [locks EXCEPT ![l[t]] = UnlockedFlag(build.os)]
  /\ Goto(t, "idle")
  /\ UNCHANGED <<mem, l>>

CallTable(t) ==
  \E o \in {ObjFar, Obj3} :
    Call(t, MkCall("store_c", o, StoreRep(Tag(3, t)), <<>>, "none"))

InitTable ==
  /\ build \in OsBuilds
  /\ locks = [s \in 0..(SPINLOCK_COUNT - 1) |-> UnlockedFlag(build.os)]
  /\ mem = ZeroMem
  /\ mem0 = mem
  /\ smem = mem
  /\ stored = [t \in Threads |-> <<>>]
  /\ ser = [t \in Threads |-> <<>>]
  /\ pc = [t \in Threads |-> "idle"]
  /\ call = [t \in Threads |-> NoCall]
  /\ l = [t \in Threads |-> -1]
  /\ idx = [t \in Threads |-> 0]
  /\ out = [t \in Threads |-> <<>>]
  /\ expected = [t \in Threads |-> <<>>]
  /\ ret = [t \in Threads |-> -1]
  /\ nops = [t \in Threads |-> 0]
  /\ pre = [t \in Threads |-> <<>>]
  /\ VersionUnset

NextTable ==
  \E t \in Threads :
    \/ CallTable(t)
    \/ SlowPath(t) \/ platform_lock(t) \/ atomic_store_c(t)
    \/ platform_unlock(t)

SpecTable == InitTable /\ [][NextTable]_vars


(***************************************************************************)
(* SpecStall: stores to two locations with different locks, where only the *)
(* thread Runner is sure to be scheduled: any other thread may stop for    *)
(* good anywhere, inside its critical section too.                         *)
(***************************************************************************)
Runner == 1

RunStall(t) ==
  \/ SlowPath(t) \/ lock(t) \/ atomic_store_c(t) \/ unlock(t)

InitStall == InitBuild(SlowBuilds, {ZeroMem})

NextStall == \E t \in Threads : CallTable(t) \/ RunStall(t)

SpecStall == InitStall /\ [][NextStall]_vars /\ WF_vars(RunStall(Runner))


(***************************************************************************)
(* SpecOrder: caller 1 makes one call that takes the slow path, then       *)
(* caller 2 makes the same call on a twin of the object (the same bytes),  *)
(* each with memory-order arguments of its own.                            *)
(***************************************************************************)
\* memory_order_relaxed, memory_order_release, memory_order_seq_cst
Orders == {0, 3, 5}

OrderObjects == {Obj16, Obj2, Obj3}

OrderMem ==
  [a \in UNION {(o.ptr .. (o.ptr + o.size - 1))
                  \cup (Twin(o).ptr .. (Twin(o).ptr + o.size - 1)) :
                o \in OrderObjects} |-> 0]

OrderBuilds == {b \in Builds : b.lockfree = {} /\ b.cc = "clang"}

\* The calls on object o: the generic entry points and, for a width that has
\* them, the sized ones.
OrderCalls(o) ==
  {MkCall("load_c", o, <<>>, <<>>, "none"),
   MkCall("store_c", o, StoreRep(Pat(o.size)), <<>>, "none"),
   MkCall("exchange_c", o, StoreRep(Pat(o.size)), <<>>, "none")}
  \cup {MkCall("compare_exchange_c", o, StoreRep(Ones(o.size)), StoreRep(e), "none") :
          e \in {Zero(o.size), Pat(o.size)}}
  \cup (IF o.size \notin SizedWidths THEN {}
        ELSE {MkCall("load_n", o, <<>>, <<>>, "none"),
              MkCall("store_n", o, Pat(o.size), <<>>, "none"),
              MkCall("exchange_n", o, Pat(o.size), <<>>, "none")}
             \cup {MkCall("compare_exchange_n", o, Ones(o.size), e, "none") :
                     e \in {Zero(o.size), Pat(o.size)}}
             \cup {MkCall("fetch_n", o, Small(o.size, 1), <<>>, op) :
                     op \in {"add", "and"}})

\* The memory-order arguments of entry point fn: <<success, failure>> for
\* compare_exchange, <<model>> for the others.
OrdersOf(fn) ==
  IF fn \in {"compare_exchange_c", "compare_exchange_n"}
  THEN {<<m, f>> : m \in Orders, f \in {0, 5}}
  ELSE {<<m>> : m \in Orders}

\* Call c on the object at p with memory-order arguments m.
WithOrder(c, p, m) ==
  [fn |-> c.fn, ptr |-> p, size |-> c.size, val |-> c.val,
   expected |-> c.expected, op |-> c.op, order |-> m]

CallOrderFirst ==
  \E o \in OrderObjects :
    \E c \in OrderCalls(o) :
      \E m \in OrdersOf(c.fn) :
        /\ nops[1] = 0
        /\ Call(1, WithOrder(c, o.ptr, m))

CallOrderSecond ==
  \E m \in OrdersOf(call[1].fn) :
    /\ nops[2] = 0
    /\ nops[1] = 1
    /\ pc[1] = "idle"
    /\ Call(2, WithOrder(call[1], call[1].ptr + 256, m))

InitOrder == InitBuild(OrderBuilds, {OrderMem})

NextOrder ==
  \/ CallOrderFirst \/ CallOrderSecond
  \/ \E t \in Threads : Run(t)

SpecOrder == InitOrder /\ [][NextOrder]_vars


(***************************************************************************)
(* SpecPath: two callers make one call each, of any entry point, on        *)
(* locations of the widths 2, 8 and 16 (two locations of width 2), on      *)
(* hardware with any set of lock-free widths.                              *)
(***************************************************************************)
PathBuilds == {b \in HwBuilds : b.cc = "clang" /\ ~b.bigEndian}

PathObjects == {Obj16, Obj8, Obj2, ObjHi}

CallPath(t) ==
  \E o \in PathObjects :
    /\ nops[t] = 0
    /\ \/ CallGeneric(t, o, {"pat"}, {"zero"}, {"ones"})
       \/ CallSized(t, o, {"pat"}, {"zero"}, {"ones"}, {"add", "xor"}, {"one"})

InitPath == InitBuild(PathBuilds, {ZeroMem})

NextPath == \E t \in Threads : CallPath(t) \/ Run(t)

SpecPath == InitPath /\ [][NextPath]_vars


(***************************************************************************)
(* SpecOvertake: thread Waiter makes one fetch_add; the other threads make *)
(* their calls, on locations of the same slot, once Waiter spins in lock.  *)
(* Every thread that can take a step eventually takes one.                 *)
(***************************************************************************)
Waiter == 1

CallOvertake(t) ==
  \/ /\ t = Waiter
     /\ nops[t] = 0
     /\ Call(t, MkCall("fetch_n", Obj2, Small(2, 1), <<>>, "add"))
  \/ /\ t # Waiter
     /\ pc[Waiter] = "lock"
     /\ \/ Call(t, MkCall("fetch_n", Obj2, Small(2, 1), <<>>, "add"))
        \/ Call(t, MkCall("store_c", ObjFar, StoreRep(Tag(3, t)), <<>>, "none"))

RunOvertake(t) ==
  \/ SlowPath(t) \/ lock(t) \/ unlock(t)
  \/ atomic_store_c(t) \/ atomic_fetch_n(t)

InitOvertake == InitBuild(SlowBuilds, {ZeroMem})

NextOvertake == \E t \in Threads : CallOvertake(t) \/ RunOvertake(t)

SpecOvertake ==
  /\ InitOvertake
  /\ [][NextOvertake]_vars
  /\ \A t \in Threads : WF_vars(RunOvertake(t))


(***************************************************************************)
(* os_version_check.c: __isOSVersionAtLeast.  A build uses dispatch_once_f *)
(* (__ENVIRONMENT_MAC_OS_X_VERSION_MIN_REQUIRED__ >= 1060) or the test of  *)
(* GlobalMajor; plist is what the host gives parseSystemVersionPList:      *)
(* whether it gets as far as sscanf, and the numbers sscanf then converts  *)
(* ("10.6.8", "10.6", "10", or a string without a leading number).         *)
(***************************************************************************)
Plists ==
  {[read |-> FALSE, v |-> <<>>],
   [read |-> TRUE, v |-> <<>>],
   [read |-> TRUE, v |-> <<10>>],
   [read |-> TRUE, v |-> <<10, 6>>],
   [read |-> TRUE, v |-> <<10, 6, 8>>]}

VersionBuilds == [dispatch : BOOLEAN, plist : Plists]

\* The atomic functions are not called.
AtomicsIdle ==
  UNCHANGED <<build, locks, mem, pc, call, l, idx, out, expected, ret, nops,
              pre, stored, mem0, smem, ser>>

\* Thread t's call moves to statement p.
ProbeGoto(t, p) == probe' = [probe EXCEPT ![t].pc = p]

\* Thread t's call returns r.
ProbeReturn(t, r) ==
  probe' = [probe EXCEPT ![t].pc = "idle", ![t].ret = r, ![t].n = @ + 1]

\* A caller invokes __isOSVersionAtLeast(Major, Minor, Subminor).
CallVersion(t, Q) ==
  \E q \in Q :
    /\ probe[t].pc = "idle"
    /\ probe[t].n < MaxOps
    /\ probe' = [probe EXCEPT ![t] =
                   [pc |-> "populate", Major |-> q[1], Minor |-> q[2],
                    Subminor |-> q[3], ret |-> -1, n |-> @.n]]
    /\ UNCHANGED <<GlobalMajor, GlobalMinor, GlobalSubminor,
                   DispatchOnceCounter, parses>>
    /\ AtomicsIdle

\* dispatch_once_f(&DispatchOnceCounter, NULL, parseSystemVersionPList);
\* the first caller runs the function, the others wait until it has run.
dispatch_once_f(t) ==
  /\ build.dispatch
  /\ probe[t].pc = "populate"
  /\ \/ /\ DispatchOnceCounter = 0
        /\ DispatchOnceCounter' = 1
        /\ parses' = parses + 1
        /\ ProbeGoto(t, "parse")
     \/ /\ DispatchOnceCounter = 2
        /\ UNCHANGED <<DispatchOnceCounter, parses>>
        /\ ProbeGoto(t, "major_lt")
  /\ UNCHANGED <<GlobalMajor, GlobalMinor, GlobalSubminor>>
  /\ AtomicsIdle

\* if (GlobalMajor == 0) parseSystemVersionPList(NULL);
TestGlobalMajor(t) ==
  /\ ~build.dispatch
  /\ probe[t].pc = "populate"
  /\ IF GlobalMajor = 0
     THEN parses' = parses + 1 /\ ProbeGoto(t, "parse")
     ELSE parses' = parses /\ ProbeGoto(t, "major_lt")
  /\ UNCHANGED <<GlobalMajor, GlobalMinor, GlobalSubminor, DispatchOnceCounter>>
  /\ AtomicsIdle

\* static void parseSystemVersionPList(void *Unused): every failure returns
\* and leaves the globals alone; sscanf stores the numbers it converts one
\* after the other.
parseSystemVersionPList(t) ==
  /\ \/ /\ probe[t].pc = "parse"
        /\ ProbeGoto(t, IF build.plist.read THEN "sscanf_major" ELSE "parsed")
        /\ UNCHANGED <<GlobalMajor, GlobalMinor, GlobalSubminor,
                       DispatchOnceCounter>>
     \/ /\ probe[t].pc = "sscanf_major"
        /\ IF Len(build.plist.v) >= 1
           THEN GlobalMajor' = build.plist.v[1] /\ ProbeGoto(t, "sscanf_minor")
           ELSE GlobalMajor' = GlobalMajor /\ ProbeGoto(t, "parsed")
        /\ UNCHANGED <<GlobalMinor, GlobalSubminor, DispatchOnceCounter>>
     \/ /\ probe[t].pc = "sscanf_minor"
        /\ IF Len(build.plist.v) >= 2
           THEN GlobalMinor' = build.plist.v[2] /\ ProbeGoto(t, "sscanf_subminor")
           ELSE GlobalMinor' = GlobalMinor /\ ProbeGoto(t, "parsed")
        /\ UNCHANGED <<GlobalMajor, GlobalSubminor, DispatchOnceCounter>>
     \/ /\ probe[t].pc = "sscanf_subminor"
        /\ GlobalSubminor' = IF Len(build.plist.v) >= 3 THEN build.plist.v[3]
                             ELSE GlobalSubminor
        /\ ProbeGoto(t, "parsed")
        /\ UNCHANGED <<GlobalMajor, GlobalMinor, DispatchOnceCounter>>
     \/ /\ probe[t].pc = "parsed"
        \* the function returns; dispatch_once_f marks it as run
        /\ DispatchOnceCounter' = IF build.dispatch THEN 2 ELSE DispatchOnceCounter
        /\ ProbeGoto(t, "major_lt")
        /\ UNCHANGED <<GlobalMajor, GlobalMinor, GlobalSubminor>>
  /\ UNCHANGED parses
  /\ AtomicsIdle

\* return Subminor < GlobalSubminor;
AtLeastSubminorStrict(Subminor, Global) == IF Subminor < Global THEN 1 ELSE 0

\* return Subminor <= GlobalSubminor;
AtLeastSubminor(Subminor, Global) == IF Subminor <= Global THEN 1 ELSE 0

\* int32_t __isOSVersionAtLeast(int32_t Major, int32_t Minor, int32_t Subminor),
\* from the first comparison on; every if reads its global.
isOSVersionAtLeast(t) ==
  /\ \/ /\ probe[t].pc = "major_lt"
        \* if (Major < GlobalMajor) return 1;
        /\ IF probe[t].Major < GlobalMajor
           THEN ProbeReturn(t, 1) ELSE ProbeGoto(t, "major_gt")
     \/ /\ probe[t].pc = "major_gt"
        \* if (Major > GlobalMajor) return 0;
        /\ IF probe[t].Major > GlobalMajor
           THEN ProbeReturn(t, 0) ELSE ProbeGoto(t, "minor_lt")
     \/ /\ probe[t].pc = "minor_lt"
        \* if (Minor < GlobalMinor) return 1;
        /\ IF probe[t].Minor < GlobalMinor
           THEN ProbeReturn(t, 1) ELSE ProbeGoto(t, "minor_gt")
     \/ /\ probe[t].pc = "minor_gt"
        \* if (Minor > GlobalMinor) return 0;
        /\ IF probe[t].Minor > GlobalMinor
           THEN ProbeReturn(t, 0) ELSE ProbeGoto(t, "subminor")
     \/ /\ probe[t].pc = "subminor"
        /\ ProbeReturn(t, AtLeastSubminor(probe[t].Subminor, GlobalSubminor))
  /\ UNCHANGED <<GlobalMajor, GlobalMinor, GlobalSubminor, DispatchOnceCounter,
                 parses>>
  /\ AtomicsIdle

RunVersion(t) ==
  \/ dispatch_once_f(t) \/ TestGlobalMajor(t)
  \/ parseSystemVersionPList(t) \/ isOSVersionAtLeast(t)

(***************************************************************************)
(* SpecVersionSeq: one thread calls __isOSVersionAtLeast with triples      *)
(* below, at and above the host version, negative ones included.           *)
(***************************************************************************)
VersionNumbers == {-1, 0, 6, 8, 10, 11}

VersionTriples ==
  {<<a, b, c>> : a \in VersionNumbers, b \in VersionNumbers, c \in VersionNumbers}

InitVersion == InitBuild(VersionBuilds, {ZeroMem})

NextVersionSeq == CallVersion(1, VersionTriples) \/ RunVersion(1)

SpecVersionSeq == InitVersion /\ [][NextVersionSeq]_vars

(***************************************************************************)
(* SpecVersion: every thread calls __isOSVersionAtLeast MaxOps times.      *)
(***************************************************************************)
VersionQueries == {<<10, 5, 0>>, <<10, 6, 9>>}

NextVersion ==
  \E t \in Threads : CallVersion(t, VersionQueries) \/ RunVersion(t)

SpecVersion == InitVersion /\ [][NextVersion]_vars

(***************************************************************************)
(* Properties of one call that runs alone (SpecSeq)                        *)
(***************************************************************************)
\* Thread t's call has returned.
Returned(t) == pc[t] = "idle" /\ call[t].fn # "none"

\* The bytes at ptr of thread t's call.
AtPtr(t) == Image(mem, call[t].ptr, call[t].size)

CompareExchanges == {"compare_exchange_c", "compare_exchange_n"}
Exchanges == {"exchange_c", "exchange_n"}
Loads == {"load_c", "load_n"}

\* C4: a compare_exchange called when the bytes at ptr equal the bytes at
\* expected returns success, leaves the bytes at ptr equal to desired and
\* leaves expected unchanged, in the generic and in every sized form.
CompareExchangeEqualSucceeds ==
  \A t \in Threads :
    (/\ Returned(t)
     /\ call[t].fn \in CompareExchanges
     /\ pre[t] = BytesOf(call[t], call[t].expected))
    => /\ ret[t] = 1
       /\ AtPtr(t) = BytesOf(call[t], call[t].val)
       /\ expected[t] = call[t].expected

\* C5: a compare_exchange called when the bytes at ptr differ from the bytes
\* at expected returns failure, leaves the bytes at ptr unchanged and
\* overwrites expected with the bytes that were at ptr.
CompareExchangeDifferFails ==
  \A t \in Threads :
    (/\ Returned(t)
     /\ call[t].fn \in CompareExchanges
     /\ pre[t] # BytesOf(call[t], call[t].expected))
    => /\ ret[t] = 0
       /\ AtPtr(t) = pre[t]
       /\ BytesOf(call[t], expected[t]) = pre[t]

\* A 16-byte sized compare_exchange has failed on a location holding a
\* value other than zero, and expected was overwritten with it.
CompareExchangeDifferWitness ==
  \E t \in Threads :
    /\ Returned(t)
    /\ call[t].fn = "compare_exchange_n"
    /\ call[t].size = 16
    /\ pre[t] = StoreRep(Pat(16))
    /\ call[t].expected = Ones(16)
    /\ ret[t] = 0
    /\ expected[t] = Pat(16)

\* C6: compare_exchange is strong on every path and in every build variant:
\* it returns failure only if the bytes at ptr differed from expected when
\* it compared them.
CompareExchangeStrong ==
  \A t \in Threads :
    (/\ Returned(t)
     /\ call[t].fn \in CompareExchanges
     /\ ret[t] = 0)
    => pre[t] # BytesOf(call[t], call[t].expected)

\* C7: for every width in {1, 2, 4, 8, 16}, a load that follows a store of X
\* to the same ptr returns X, on either path, for the generic and the sized
\* entry points.
StoreLoadRoundTrip ==
  \A t \in Threads :
    (/\ Returned(t)
     /\ call[t].fn \in Loads
     /\ call[t].size \in SizedWidths
     /\ stored[t] # <<>>)
    => BytesOf(call[t], out[t]) = stored[t]

\* A lock-free 8-byte sized load has returned the 0x1122334455667788 stored
\* before it.
StoreLoadWitness ==
  \E t \in Threads :
    /\ Returned(t)
    /\ call[t].fn = "load_n"
    /\ call[t].size = 8
    /\ LockFreePath(call[t])
    /\ stored[t] = StoreRep(Pat(8))
    /\ out[t] = Pat(8)


(***************************************************************************)
(* Unsigned arithmetic of width n bytes, stated digit by digit             *)
(***************************************************************************)
\* a + b carries into digit k: the digits below k of a and b add up to
\* 256^(k-1) or more.
CarryInto(a, b, k) ==
  \E j \in 1..(k - 1) :
    /\ a[j] + b[j] > 255
    /\ \A i \in (j + 1)..(k - 1) : a[i] + b[i] = 255

\* a - b borrows from digit k: below digit k, a is less than b.
BorrowFrom(a, b, k) ==
  \E j \in 1..(k - 1) :
    /\ a[j] < b[j]
    /\ \A i \in (j + 1)..(k - 1) : a[i] = b[i]

\* (a + b) mod 2^w and (a - b) mod 2^w, w = 8 * Len(a)
SumMod(a, b) ==
  [k \in 1..Len(a) |-> (a[k] + b[k] + (IF CarryInto(a, b, k) THEN 1 ELSE 0)) % 256]
DiffMod(a, b) ==
  [k \in 1..Len(a) |-> (a[k] - b[k] - (IF BorrowFrom(a, b, k) THEN 1 ELSE 0)) % 256]

\* Bit j of digit x.
BitOf(x, j) == (x \div (2 ^ j)) % 2

\* r is a op b for a bitwise op.
IsBitwise(op, r, a, b) ==
  \A k \in 1..Len(a) :
    /\ r[k] \in 0..255
    /\ \A j \in 0..7 :
         BitOf(r[k], j) = 1 <=>
           CASE op = "and" -> BitOf(a[k], j) = 1 /\ BitOf(b[k], j) = 1
             [] op = "or"  -> BitOf(a[k], j) = 1 \/ BitOf(b[k], j) = 1
             [] op = "xor" -> BitOf(a[k], j) # BitOf(b[k], j)

\* r is (a op b) truncated to Len(a) bytes.
IsResult(op, r, a, b) ==
  /\ Len(r) = Len(a)
  /\ CASE op = "add" -> r = SumMod(a, b)
       [] op = "sub" -> r = DiffMod(a, b)
       [] OTHER -> IsBitwise(op, r, a, b)

\* The number a sequence of at most three digits stands for.
Num(a) == (IF Len(a) > 0 THEN a[1] ELSE 0) + (IF Len(a) > 1 THEN 256 * a[2] ELSE 0)
            + (IF Len(a) > 2 THEN 65536 * a[3] ELSE 0)

\* C9: for every op, width and pair (old, operand), fetch_op_n returns old and
\* leaves ptr holding (old op operand) truncated to n bytes.
FetchOpReturnsOldStoresResult ==
  \A t \in Threads :
    (Returned(t) /\ call[t].fn = "fetch_n")
    => /\ out[t] = LoadRep(pre[t])
       /\ IsResult(call[t].op, LoadRep(AtPtr(t)), LoadRep(pre[t]), call[t].val)

\* An 8-byte fetch_xor of 0x1122334455667788 with the all-ones operand has
\* returned the old value and left its complement.
FetchOpWitness ==
  \E t \in Threads :
    /\ Returned(t)
    /\ call[t].fn = "fetch_n"
    /\ call[t].op = "xor"
    /\ call[t].size = 8
    /\ call[t].val = Ones(8)
    /\ out[t] = Pat(8)
    /\ LoadRep(AtPtr(t)) = [k \in 1..8 |-> 255 - Pat(8)[k]]

\* C10: fetch_add of 1 on 2^w - 1 returns 2^w - 1 and leaves 0; fetch_sub of 1
\* on 0 returns 0 and leaves 2^w - 1; the stored result is
\* (old +/- operand) mod 2^w; fetch_add of 5 on an 8-byte zero location
\* returns 0 and leaves 5.
FetchAddSubWrapAround ==
  \A t \in Threads :
    (Returned(t) /\ call[t].fn = "fetch_n" /\ call[t].op \in {"add", "sub"})
    => LET n == call[t].size
           old == LoadRep(pre[t])
           new == LoadRep(AtPtr(t))
           add == call[t].op = "add"
       IN /\ (add /\ old = Ones(n) /\ call[t].val = Small(n, 1))
               => out[t] = Ones(n) /\ new = Zero(n)
          /\ (~add /\ old = Zero(n) /\ call[t].val = Small(n, 1))
               => out[t] = Zero(n) /\ new = Ones(n)
          /\ new = IF add THEN SumMod(old, call[t].val)
                          ELSE DiffMod(old, call[t].val)
          /\ n <= 2 =>
               Num(new) = IF add THEN (Num(old) + Num(call[t].val)) % (256 ^ n)
                                 ELSE (Num(old) - Num(call[t].val)) % (256 ^ n)
          /\ (add /\ n = 8 /\ old = Zero(8) /\ call[t].val = Small(8, 5))
               => out[t] = Zero(8) /\ new = Small(8, 5)

\* A 16-byte fetch_add of 1 on 2^128 - 1 has returned 2^128 - 1 and left 0.
FetchAddWrapWitness ==
  \E t \in Threads :
    /\ Returned(t)
    /\ call[t].fn = "fetch_n"
    /\ call[t].op = "add"
    /\ call[t].size = 16
    /\ call[t].val = Small(16, 1)
    /\ out[t] = Ones(16)
    /\ AtPtr(t) = Zero(16)

(***************************************************************************)
(* Properties of concurrent calls                                          *)
(***************************************************************************)
\* Thread t is between a completed lock(l) and its unlock(l).
InCritical(t) == pc[t] \notin {"idle", "entry", "lock"}

\* The slot of every object, by its address.
SlotOf == [p \in {o.ptr : o \in Objects} |-> lock_for_pointer(p)]

\* C2: at most one thread is between a completed lock(l) and its unlock(l)
\* for any slot l, so at most one thread at a time reads or writes bytes of
\* the slow-path locations that map to l, colliding addresses included.
MutualExclusion ==
  \A t \in Threads :
    InCritical(t) =>
      /\ l[t] = SlotOf[call[t].ptr]
      /\ locks[l[t]] = 1
      /\ \A u \in Threads \ {t} : InCritical(u) => l[u] # l[t]

\* One thread copies bytes of ObjFar under slot 565 while another, called
\* on Obj2, waits for the same slot.
MutualExclusionWitness ==
  \E t, u \in Threads :
    /\ pc[t] = "memcpy_val"
    /\ call[t].ptr = ObjFar.ptr
    /\ pc[u] = "lock"
    /\ call[u].ptr = Obj2.ptr
    /\ l[u] = l[t]

\* C3: slow-path operations on addresses of one slot hand back the values,
\* and leave the memory, of the run in which they execute one at a time in
\* the order in which they acquired the slot.
SerializedBySlot ==
  /\ \A t \in Threads :
       (Returned(t) /\ ~LockFreePath(call[t]))
       => /\ out[t] = ser[t].out
          /\ expected[t] = ser[t].expected
          /\ ret[t] = ser[t].ret
  /\ \A o \in Objects :
       (~LOCK_FREE_CASES(o.size) /\ locks[SlotOf[o.ptr]] = 0)
       => Image(mem, o.ptr, o.size) = Image(smem, o.ptr, o.size)

\* Two threads have run compare_exchange from 0 on Obj2: the first to
\* acquire the slot succeeded, the other failed and was handed the first
\* one's value; a third call, on ObjFar, went through the same slot.
SerializedWitness ==
  \E t, u \in Threads :
    /\ Returned(t) /\ Returned(u)
    /\ call[t].fn = "compare_exchange_n" /\ call[u].fn = "compare_exchange_n"
    /\ ret[t] = 1
    /\ ret[u] = 0
    /\ expected[u] = Tag(2, t)
    /\ Image(mem, ObjFar.ptr, 3) # Zero(3)

\* No thread is inside a critical section.
Quiescent == \A u \in Threads : ~InCritical(u)

\* The calls the threads of T have returned from.
RECURSIVE OpsDone(_)
OpsDone(T) ==
  IF T = {} THEN 0
  ELSE LET t == CHOOSE x \in T : TRUE IN nops[t] + OpsDone(T \ {t})

\* C1: with NThreads threads each calling the sized fetch_add(ptr, 1) MaxOps
\* times on one location that is not lock-free, the final value at ptr is
\* initial + NThreads * MaxOps modulo the width in every interleaving; no
\* increment is lost (between critical sections the value is the initial
\* one plus the number of calls that have returned).
FetchAddCountsEveryIncrement ==
  \A t \in Threads :
    call[t].fn = "fetch_n" =>
      LET n == call[t].size
          init == LoadRep(Image(mem0, call[t].ptr, n))
          cur == LoadRep(AtPtr(t))
      IN /\ Quiescent => cur = SumMod(init, Small(n, OpsDone(Threads)))
         /\ (\A u \in Threads : nops[u] = MaxOps)
              => cur = SumMod(init, Small(n, NThreads * MaxOps))

\* Every thread has returned from its last fetch_add on a 16-byte location
\* that held 2^128 - 1: the value has wrapped to NThreads * MaxOps - 1.
FetchAddFinalWitness ==
  /\ \A u \in Threads : nops[u] = MaxOps /\ call[u].size = 16
  /\ mem0 = OnesMem
  /\ Image(mem, Obj16.ptr, 16) = StoreRep(Small(16, NThreads * MaxOps - 1))

\* C8: exchange reads the old value and writes the new one as one critical
\* section: run alone it returns the prior bytes and leaves ptr holding
\* value; when threads exchange pairwise-distinct values on one slow-path
\* location, the returned old values together with the content of ptr are,
\* as a multiset, the initial content together with the values written.
ExchangeOneCriticalSection ==
  \A t \in Threads :
    call[t].fn \in Exchanges =>
      LET c == call[t]
          init == Image(mem0, c.ptr, c.size)
          cur == AtPtr(t)
          Done == {u \in Threads : Returned(u)}
          old(u) == BytesOf(call[u], out[u])
          new(u) == BytesOf(call[u], call[u].val)
          vals == {init, cur} \cup {old(u) : u \in Done} \cup {new(u) : u \in Done}
      IN /\ (Returned(t) /\ \A u \in Threads \ {t} : call[u].fn = "none")
              => old(t) = init /\ cur = new(t)
         /\ pc[t] = "unlock" => old(t) = pre[t] /\ cur = new(t)
         /\ (~LockFreePath(c) /\ Quiescent)
              => \A v \in vals :
                   Cardinality({u \in Done : old(u) = v}) + (IF cur = v THEN 1 ELSE 0)
                     = (IF init = v THEN 1 ELSE 0)
                         + Cardinality({u \in Done : new(u) = v})

\* Threads 1 and 2 have exchanged on an 8-byte zero location on the slow
\* path: thread 1 was handed 0, thread 2 was handed thread 1's
\* 0x1122334455667788, and the location holds thread 2's value.
ExchangeWitness ==
  /\ Returned(1) /\ Returned(2)
  /\ call[1].size = 8
  /\ ~LockFreePath(call[1])
  /\ BytesOf(call[1], out[1]) = Zero(8)
  /\ BytesOf(call[2], out[2]) = StoreRep(Pat(8))
  /\ AtPtr(2) = StoreRep(Tag(8, 2))

(***************************************************************************)
(* Properties of the dispatch (SpecDispatch)                               *)
(***************************************************************************)
\* The lock table with every slot unlocked.
ZeroLocks == [s \in 0..(SPINLOCK_COUNT - 1) |-> 0]

\* The hardware does call c lock-free and the entry points ask for it.
NativeSize(c) == c.size \in {1, 2, 4, 8} /\ c.size \in build.lockfree

\* C11: for a size in {1, 2, 4, 8} that is lock-free, every operation,
\* generic or sized, is forwarded to the native atomic instruction: it
\* returns from its entry without computing, acquiring, releasing or
\* changing any slot of the lock table.
LockFreeNeverTouchesLocks ==
  \A t \in Threads :
    (call[t].fn # "none" /\ NativeSize(call[t]))
    => /\ pc[t] \in {"entry", "idle"}
       /\ l[t] = -1
       /\ locks = ZeroLocks

\* A lock-free generic 8-byte compare_exchange has succeeded and written
\* desired with the lock table untouched.
LockFreeWitness ==
  \E t \in Threads :
    /\ Returned(t)
    /\ call[t].fn = "compare_exchange_c"
    /\ call[t].size = 8
    /\ 8 \in build.lockfree
    /\ ret[t] = 1
    /\ AtPtr(t) = Ones(8)
    /\ l[t] = -1

\* Thread t's call has done nothing yet: no byte at ptr changed, nothing
\* handed back.
Untouched(t) ==
  /\ AtPtr(t) = pre[t]
  /\ out[t] = Unset(call[t].size)
  /\ expected[t] = call[t].expected
  /\ ret[t] = -1

\* C12: every 16-byte operation, generic with size 16 or sized _16, takes
\* the slow path and acquires the slot of its address, whether or not the
\* hardware could perform it lock-free: it does nothing before it holds the
\* slot, and returns having gone through it.
SixteenBytesAlwaysLocked ==
  \A t \in Threads :
    (call[t].fn # "none" /\ call[t].size = 16)
    => /\ pc[t] \in {"entry", "lock"} => Untouched(t)
       /\ InCritical(t) =>
            l[t] = lock_for_pointer(call[t].ptr) /\ locks[l[t]] = 1
       /\ Returned(t) => l[t] = lock_for_pointer(call[t].ptr)

\* On hardware with lock-free 16-byte atomics, a sized 16-byte fetch_xor is
\* about to write under the slot of its address.
SixteenBytesWitness ==
  \E t \in Threads :
    /\ 16 \in build.lockfree
    /\ call[t].fn = "fetch_n"
    /\ call[t].op = "xor"
    /\ call[t].size = 16
    /\ pc[t] = "write"
    /\ locks[l[t]] = 1

\* The addresses of the bytes of thread t's call.
Range(t) == call[t].ptr .. (call[t].ptr + call[t].size - 1)

\* What a returned generic call has done with exactly size bytes.
GenericDone(t) ==
  LET c == call[t] IN
  /\ Len(pre[t]) = c.size
  /\ \A a \in DOMAIN mem : a \notin Range(t) => mem[a] = mem0[a]
  /\ CASE c.fn = "load_c" -> out[t] = pre[t] /\ AtPtr(t) = pre[t]
       [] c.fn = "store_c" -> AtPtr(t) = c.val
       [] c.fn = "exchange_c" -> out[t] = pre[t] /\ AtPtr(t) = c.val
       [] c.fn = "compare_exchange_c" ->
            \/ ret[t] = 1 /\ pre[t] = c.expected /\ AtPtr(t) = c.val
                 /\ expected[t] = c.expected
            \/ ret[t] = 0 /\ pre[t] # c.expected /\ AtPtr(t) = pre[t]
                 /\ expected[t] = pre[t]

\* C13: a generic operation whose size is outside {1, 2, 4, 8} (3, 16, 32)
\* or is not lock-free falls through the switch and runs the slow path: it
\* copies or compares exactly size bytes, all of them while it holds the
\* slot of its pointer.
GenericFallsThrough ==
  \A t \in Threads :
    (call[t].fn \in Generic /\ ~NativeSize(call[t]))
    => /\ pc[t] \in {"entry", "lock"} => Untouched(t)
       /\ InCritical(t) =>
            /\ l[t] = lock_for_pointer(call[t].ptr)
            /\ locks[l[t]] = 1
            /\ idx[t] \in 0..(call[t].size - 1)
       /\ Returned(t) =>
            l[t] = lock_for_pointer(call[t].ptr) /\ GenericDone(t)

\* A generic compare_exchange of size 32 copies the last of its 32 bytes to
\* expected under the slot of its pointer.
GenericFallsThroughWitness ==
  \E t \in Threads :
    /\ call[t].fn = "compare_exchange_c"
    /\ call[t].size = 32
    /\ pc[t] = "memcpy_expected"
    /\ idx[t] = 31
    /\ locks[l[t]] = 1

(***************************************************************************)
(* Properties of the lock table under concurrent calls (Spec)              *)
(***************************************************************************)
\* The lock table in which exactly the slots l of the threads of T that are
\* between lock(l) and unlock(l) are locked.
RECURSIVE HeldBy(_)
HeldBy(T) ==
  IF T = {} THEN ZeroLocks
  ELSE LET t == CHOOSE x \in T : TRUE
           rest == HeldBy(T \ {t})
       IN IF InCritical(t) THEN [rest EXCEPT ![l[t]] = 1] ELSE rest

\* C14: every slow-path operation acquires exactly one slot, lock_for(ptr)
\* of its pointer, and releases it once on every exit path, both returns of
\* compare_exchange included: a slot is locked exactly while the operation
\* that acquired it is between lock(l) and unlock(l), a thread holds no slot
\* when its operation has returned, and when every operation has completed
\* every slot is unlocked.
LockBalance ==
  /\ locks = HeldBy(Threads)
  /\ \A t \in Threads :
       InCritical(t) =>
         /\ l[t] = SlotOf[call[t].ptr]
         /\ \A u \in Threads \ {t} : InCritical(u) => l[u] # l[t]
  /\ (\A t \in Threads : pc[t] = "idle") => locks = ZeroLocks

\* Two compare_exchange calls on one location have returned, one through
\* the success exit and one through the failure exit, and every slot is
\* unlocked again.
LockBalanceWitness ==
  \E t, u \in Threads :
    /\ \A v \in Threads : pc[v] = "idle"
    /\ call[t].fn = "compare_exchange_c" /\ call[u].fn = "compare_exchange_c"
    /\ ret[t] = 1
    /\ ret[u] = 0
    /\ locks = ZeroLocks

\* Thread t takes the step.
Actor(t) == <<pc[t], idx[t]>> # <<pc'[t], idx'[t]>>

\* Thread u has made no call but, at most, one on a location that is not
\* that of thread t's call and shares its slot.
OnlyOnCollider(u, t) ==
  \/ call[u].fn = "none"
  \/ /\ call[u].ptr # call[t].ptr
     /\ SlotOf[call[u].ptr] = SlotOf[call[t].ptr]
     /\ nops[u] = 0 \/ (nops[u] = 1 /\ pc[u] = "idle")

\* Location B of thread t's returned call, with the other threads calling
\* on a colliding location A only, has the round-trip and compare-exchange
\* properties: the call found at B what thread t itself left there.
IndependentOfCollider(t) ==
  LET c == call[t] IN
  /\ nops[t] = 1 => pre[t] = Image(mem0, c.ptr, c.size)
  /\ stored[t] # <<>> => pre[t] = stored[t]
  /\ (c.fn \in Loads /\ stored[t] # <<>>) => BytesOf(c, out[t]) = stored[t]
  /\ c.fn \in CompareExchanges =>
       \/ /\ ret[t] = 1
          /\ pre[t] = BytesOf(c, c.expected)
          /\ AtPtr(t) = BytesOf(c, c.val)
          /\ expected[t] = c.expected
       \/ /\ ret[t] = 0
          /\ pre[t] # BytesOf(c, c.expected)
          /\ AtPtr(t) = pre[t]
          /\ BytesOf(c, expected[t]) = pre[t]

\* C15: for distinct locations A and B with lock_for(A) = lock_for(B), no
\* step of an operation on A changes a byte of B, and each location has
\* the round-trip and compare-exchange properties of its own while
\* operations on the two are interleaved by concurrent threads.
NoCrossTalk ==
  /\ [](\A t \in Threads :
          (Returned(t) /\ \A u \in Threads \ {t} : OnlyOnCollider(u, t))
          => IndependentOfCollider(t))
  /\ [][\A t \in Threads :
          Actor(t) =>
            \A o \in Objects :
              (o.ptr # call'[t].ptr /\ SlotOf[o.ptr] = SlotOf[call'[t].ptr])
              => Image(mem', o.ptr, o.size) = Image(mem, o.ptr, o.size)]_vars

\* A thread has loaded from ObjFar the value it stored there, and another
\* has exchanged its own value into Obj2, which shares the slot.
NoCrossTalkWitness ==
  \E t, u \in Threads :
    /\ Returned(t)
    /\ call[t].fn = "load_c"
    /\ call[t].ptr = ObjFar.ptr
    /\ stored[t] = StoreRep(Tag(3, t))
    /\ out[t] = stored[t]
    /\ Returned(u)
    /\ nops[u] = 1
    /\ call[u].fn = "exchange_n"
    /\ call[u].ptr = Obj2.ptr
    /\ AtPtr(u) = StoreRep(Tag(2, u))

\* C19: all state mutation of an operation is confined to the bytes of its
\* location and to the flag of its slot: a step of an operation on ptr
\* changes no slot other than lock_for(ptr) and no byte outside the size
\* bytes at ptr, and the lock table always has its SPINLOCK_COUNT slots.
MutationConfined ==
  /\ [](DOMAIN locks = 0..(SPINLOCK_COUNT - 1))
  /\ [][\A t \in Threads :
          Actor(t) =>
            /\ locks' = [locks EXCEPT ![SlotOf[call'[t].ptr]] =
                                         locks'[SlotOf[call'[t].ptr]]]
            /\ \/ mem' = mem
               \/ \A a \in DOMAIN mem :
                    (a < call[t].ptr \/ a >= call[t].ptr + call[t].size)
                    => mem'[a] = mem[a]]_vars

\* A generic exchange has written the three bytes of ObjFar and still holds
\* its slot: no other slot is locked and no other byte has changed.
MutationConfinedWitness ==
  \E t \in Threads :
    /\ call[t].fn = "exchange_c"
    /\ call[t].ptr = ObjFar.ptr
    /\ pc[t] = "unlock"
    /\ AtPtr(t) = StoreRep(Tag(3, t))
    /\ locks = [ZeroLocks EXCEPT ![SlotOf[ObjFar.ptr]] = 1]
    /\ \A a \in DOMAIN mem : a \notin Range(t) => mem[a] = 0

\* The generic load of thread t has copied all its bytes.
LoadCopied(t) ==
  /\ call[t].fn = "load_c"
  /\ pc[t] \in {"unlock", "idle"}

\* The complete values the location of thread t's call can hold: its initial
\* value and the value written by each thread.
WholeValues(t) ==
  {Image(mem0, call[t].ptr, call[t].size)}
    \cup {StoreRep(Tag(call[t].size, u)) : u \in Threads}

\* C20: a multi-byte load on the slow path that runs concurrently with
\* stores, exchanges and compare-exchanges to the same pointer, all copying
\* byte by byte, yields the complete initial value or the complete value of
\* one write, never a mixture of bytes of different writes.
NoTornReads ==
  \A t \in Threads :
    LoadCopied(t) /\ call[t].size > 1 => out[t] \in WholeValues(t)

\* Thread t has loaded the complete value written by another thread, who
\* is already spinning for the same lock with its next write.
NoTornReadsWitness ==
  \E t, u \in Threads :
    /\ t # u
    /\ LoadCopied(t)
    /\ pc[t] = "unlock"
    /\ out[t] = StoreRep(Tag(3, u))
    /\ call[u].fn \in {"store_c", "exchange_c", "compare_exchange_c"}
    /\ call[u].ptr = call[t].ptr
    /\ pc[u] = "lock"

\* s is a XOR b on the log2(SPINLOCK_COUNT) = 10 low bits.
IsXor10(s, a, b) ==
  \A j \in 0..9 : BitOf(s, j) = (BitOf(a, j) + BitOf(b, j)) % 2

\* Slot s is the one the contract gives address p: bits 4..13 of p XOR
\* bits 20..29 of p, in two's complement.
IsSlotOf(s, p) ==
  /\ s \in 0..(SPINLOCK_COUNT - 1)
  /\ IsXor10(s, (p \div 16) % SPINLOCK_COUNT, (p \div 1048576) % SPINLOCK_COUNT)

\* C17: lock_for(ptr) is a pure total function of the address: for every
\* address p, the top bit set or not, it yields the slot of index
\* ((p >> 4) & (N-1)) XOR ((p >> 20) & (N-1)), which lies in [0, N); two
\* calls with the same address yield the same slot; and the call changes
\* neither the lock table nor memory.
LockForPointerIsPureHash ==
  /\ [](\A t \in Threads :
          l[t] # -1 =>
            /\ IsSlotOf(l[t], call[t].ptr)
            /\ \A u \in Threads :
                 l[u] # -1 /\ call[u].ptr = call[t].ptr => l[u] = l[t])
  /\ [][\A t \in Threads :
          pc[t] = "entry" /\ pc'[t] = "lock" =>
            /\ l'[t] # -1
            /\ UNCHANGED <<locks, mem, build, call, nops>>
            /\ \A u \in Threads : u # t => l'[u] = l[u]]_vars

\* Both callers hold a slot for the same address with the top bit set, one
\* whose two bit ranges differ in value so that the XOR matters.
LockForPointerWitness ==
  /\ \A t \in Threads : call[t].ptr = -2147409088 /\ l[t] = 564
  /\ pc[1] = "idle"
  /\ pc[2] = "unlock"

\* Every thread has made all its calls and every call has returned.
AllDone == \A t \in Threads : pc[t] = "idle" /\ nops[t] = MaxOps

\* Some thread can take a step of the call it is in.
CanProgress == \E u \in Threads : ENABLED RunLive(u)

\* C18: with finitely many calls per thread and weak fairness of each
\* thread's steps, every started operation eventually returns and the
\* system reaches a state where all threads are done; and in no reachable
\* state is a thread blocked in lock() while no thread can make progress.
DeadlockFreeAndTerminates ==
  /\ []((\E t \in Threads : pc[t] = "lock") => CanProgress)
  /\ \A t \in Threads : (pc[t] # "idle") ~> (pc[t] = "idle")
  /\ <>[]AllDone

\* A thread spins in lock() on the slot another thread holds for a different
\* location, both in their last call.
DeadlockFreeWitness ==
  \E t, u \in Threads :
    /\ pc[t] = "lock"
    /\ locks[l[t]] = 1
    /\ InCritical(u)
    /\ l[u] = l[t]
    /\ call[u].ptr # call[t].ptr
    /\ nops[t] = MaxOps - 1
    /\ nops[u] = MaxOps - 1

\* The generic call of caller 1 and the sized call of caller 2 have both
\* returned.
TwinsReturned ==
  /\ Returned(1) /\ Returned(2)
  /\ call[1].fn \in Generic
  /\ SameArguments(call[2], call[1])

\* C16: a sized entry point for width n and the generic operation invoked
\* with size = n, started from the same memory and lock-table state with
\* the same arguments, return the same value, leave the same bytes at ptr
\* and in expected, and take the same path (lock-free or lock-guarded).
SizedIdenticalToGeneric ==
  TwinsReturned =>
    /\ ret[2] = ret[1]
    /\ BytesOf(call[2], out[2]) = out[1]
    /\ BytesOf(call[2], expected[2]) = expected[1]
    /\ AtPtr(2) = AtPtr(1)
    /\ (l[2] = -1) <=> (l[1] = -1)

\* No operation has been called yet.
BeforeFirstOperation == \A t \in Threads : call[t].fn = "none"

\* C21: the lock table is a fixed array of SPINLOCK_COUNT = 1024 = 2^10
\* slots; before the first operation every slot is unlocked (0 for the
\* portable spinlock and OSSpinLock, semaphore count 1 on FreeBSD); the
\* number of slots never changes and a slot's flag only ever is unlocked or
\* locked.
LockTableFixed ==
  /\ SPINLOCK_COUNT = 2 ^ 10
  /\ DOMAIN locks = 0..(SPINLOCK_COUNT - 1)
  /\ \A s \in DOMAIN locks : locks[s] \in {0, 1}
  /\ BeforeFirstOperation =>
       \A s \in DOMAIN locks :
         locks[s] = IF build.os = "freebsd" THEN 1 ELSE 0

\* On FreeBSD a thread holds the semaphore of its slot (count 0) while
\* another thread waits for it, and the slot of the other location is free
\* (count 1).
LockTableWitness ==
  \E t, u \in Threads :
    /\ build.os = "freebsd"
    /\ InCritical(t)
    /\ pc[u] = "lock"
    /\ l[u] = l[t]
    /\ locks[l[t]] = 0
    /\ locks[SlotOf[Obj3.ptr]] = 1
    /\ nops[t] = 1

\* The first address of the 16-byte-aligned block of p.
BlockOf(p) == (p \div 16) * 16

\* C23: all values that may be part of the same memory operation hash to
\* the same lock: any two addresses that differ only in their lowest 4 bits
\* (that lie in one 16-byte-aligned block) are mapped by lock_for_pointer to
\* the same slot.
SameBlockSameLock ==
  \A t \in Threads :
    l[t] # -1 =>
      /\ \A d \in 0..15 : lock_for_pointer(BlockOf(call[t].ptr) + d) = l[t]
      /\ \A u \in Threads :
           l[u] # -1 /\ BlockOf(call[u].ptr) = BlockOf(call[t].ptr)
             => l[u] = l[t]

\* One caller holds the lock of the first byte of the highest block of the
\* address space while another waits for the same lock with the last byte.
SameBlockWitness ==
  \E t, u \in Threads :
    /\ call[t].ptr = 2147483632
    /\ call[u].ptr = 2147483647
    /\ InCritical(t)
    /\ pc[u] = "lock"
    /\ l[u] = l[t]

\* Thread t waits in lock() for the slot of its address, which a thread
\* inside a critical section on an address of the same slot holds.
WaitsForSameSlot(t) ==
  /\ pc[t] = "lock"
  /\ \E u \in Threads \ {t} :
       /\ InCritical(u)
       /\ SlotOf[call[u].ptr] = SlotOf[call[t].ptr]

\* C24: collisions only degrade concurrency.  A thread cannot take its
\* next step only when it waits in lock() for the slot its address maps to
\* and a thread with an address of that same slot is inside its critical
\* section; so a thread that holds slot i, even if it never leaves its
\* critical section, does not keep an operation on a different slot j from
\* acquiring j and running to completion.
CollisionsOnlyDelay ==
  /\ [](\A t \in Threads :
          pc[t] # "idle" => ENABLED RunStall(t) \/ WaitsForSameSlot(t))
  /\ (pc[Runner] # "idle") ~> (pc[Runner] = "idle" \/ WaitsForSameSlot(Runner))

\* The runner is inside its critical section on Obj3 in its last call while
\* another thread, still in its first call, is inside its critical section
\* on ObjFar, whose slot is a different one.
CollisionsWitness ==
  \E u \in Threads \ {Runner} :
    /\ InCritical(Runner) /\ call[Runner].ptr = Obj3.ptr
    /\ nops[Runner] = MaxOps - 1
    /\ InCritical(u) /\ call[u].ptr = ObjFar.ptr
    /\ nops[u] = 0
    /\ l[u] # l[Runner]

\* Both runs of the call, each with its memory-order arguments, have
\* returned.
OrderRunsReturned ==
  /\ Returned(1) /\ Returned(2)
  /\ nops[1] = 1 /\ nops[2] = 1

\* C25: on the slow path the memory-order arguments (model, success,
\* failure) have no effect: two runs of the same slow-path operation from
\* the same memory and lock-table state that differ only in them return the
\* same value, leave the same bytes (at ptr and in expected) and take and
\* release the lock of ptr in the same way.
MemoryOrderIgnored ==
  /\ \A t \in Threads :
       /\ InCritical(t) =>
            /\ l[t] = lock_for_pointer(call[t].ptr)
            /\ locks[l[t]] = 1
       /\ Returned(t) => l[t] = lock_for_pointer(call[t].ptr) /\ locks[l[t]] = 0
  /\ OrderRunsReturned =>
       /\ ret[2] = ret[1]
       /\ out[2] = out[1]
       /\ expected[2] = expected[1]
       /\ AtPtr(2) = AtPtr(1)

\* A compare_exchange with (seq_cst, seq_cst) and the same one with
\* (relaxed, relaxed) have both failed and written the bytes at ptr to
\* expected.
MemoryOrderWitness ==
  /\ OrderRunsReturned
  /\ call[1].fn = "compare_exchange_c"
  /\ call[1].order = <<5, 5>>
  /\ call[2].order = <<0, 0>>
  /\ ret[2] = 0
  /\ expected[2] = Zero(call[2].size)

\* The call of thread t has chosen its path: l[t] is -1 on the lock-free
\* path and the slot of the lock on the lock-guarded one.
Decided(t) == call[t].fn # "none" /\ pc[t] # "entry"

\* C26: for each width n in {1, 2, 4, 8, 16} the choice between lock-free
\* and lock-guarded execution depends on n alone (on IS_LOCK_FREE_n), not
\* on the operation, the pointer or the entry point: all operations of
\* width n, generic or sized, are lock-free or all are lock-guarded, and
\* those on one location are guarded by the same slot.
PathDependsOnlyOnWidth ==
  \A t \in Threads :
    Decided(t) /\ call[t].size \in SizedWidths =>
      /\ (l[t] = -1) <=> NativeSize(call[t])
      /\ \A u \in Threads :
           Decided(u) /\ call[u].size = call[t].size =>
             /\ (l[u] = -1) <=> (l[t] = -1)
             /\ call[u].ptr = call[t].ptr => l[u] = l[t]

\* Where 8 bytes are not lock-free, a generic compare_exchange is inside
\* its critical section on the 8-byte location and a sized fetch_xor on the
\* same location waits for the same slot.
PathWitness ==
  \E t, u \in Threads :
    /\ 2 \in build.lockfree
    /\ call[t].fn = "compare_exchange_c" /\ call[t].ptr = Obj8.ptr
    /\ InCritical(t)
    /\ call[u].fn = "fetch_n" /\ call[u].op = "xor" /\ call[u].ptr = Obj8.ptr
    /\ pc[u] = "lock"
    /\ l[u] = l[t]

\* C27: locking is potentially unbounded in the contended case.  lock()
\* gives a waiter no precedence: whenever the slot is free, every thread
\* spinning on it can take it, however long another has been spinning; so
\* in executions fair to every thread's steps the threads that came later
\* take and release the slot again and again before an earlier waiter, who
\* gets in only in the end.
LockHasNoBoundedWaiting ==
  /\ [](\A u \in Threads :
          pc[Waiter] = "lock" /\ pc[u] = "lock" /\ l[u] = l[Waiter]
            /\ locks[l[u]] = 0
          => ENABLED lock(u))
  /\ (pc[Waiter] = "lock") ~> InCritical(Waiter)

\* The waiter still spins in lock() although every other thread, each of
\* which came after it, has taken and released the slot MaxOps times.
OvertakenWitness ==
  /\ pc[Waiter] = "lock"
  /\ nops[Waiter] = 0
  /\ locks[l[Waiter]] = 0
  /\ \A u \in Threads \ {Waiter} :
       /\ pc[u] = "idle"
       /\ nops[u] = MaxOps
       /\ l[u] = l[Waiter]

\* Triple a is lexicographically less than or equal to triple b.
LexLeq(a, b) ==
  \/ a[1] < b[1]
  \/ a[1] = b[1] /\ a[2] < b[2]
  \/ a[1] = b[1] /\ a[2] = b[2] /\ a[3] <= b[3]

\* The arguments of thread t's call of __isOSVersionAtLeast.
Asked(t) == <<probe[t].Major, probe[t].Minor, probe[t].Subminor>>

\* Thread t's call of __isOSVersionAtLeast has returned.
Answered(t) == probe[t].pc = "idle" /\ probe[t].n > 0

\* C28: __isOSVersionAtLeast(Major, Minor, Subminor) returns 1 exactly when
\* (Major, Minor, Subminor) is lexicographically less than or equal to the
\* stored host version (GlobalMajor, GlobalMinor, GlobalSubminor), and 0
\* otherwise, for all integer triples.
IsOSVersionAtLeastIsLexLeq ==
  \A t \in Threads :
    Answered(t) =>
      /\ probe[t].ret \in {0, 1}
      /\ probe[t].ret = 1 <=>
           LexLeq(Asked(t), <<GlobalMajor, GlobalMinor, GlobalSubminor>>)

\* On a host of version 10.6.8 the call with (10, 6, 8) has returned 1.
IsOSVersionAtLeastWitness ==
  /\ Answered(1)
  /\ <<GlobalMajor, GlobalMinor, GlobalSubminor>> = <<10, 6, 8>>
  /\ Asked(1) = <<10, 6, 8>>
  /\ probe[1].ret = 1

\* C29: the expensive parse of the host version is done only once: over any
\* sequence of calls of __isOSVersionAtLeast, parseSystemVersionPList runs
\* at most one time (GlobalMajor is not 0 once it has run, or dispatch_once
\* guards it).
ParsesAtMostOnce == parses <= 1

\* The version a finished initialisation leaves in the globals.
HostVersion ==
  LET v == IF build.plist.read THEN build.plist.v ELSE <<>>
  IN [k \in 1..3 |-> IF k <= Len(v) THEN v[k] ELSE 0]

\* Thread t's call is at the comparisons with the globals.
Comparing(t) ==
  probe[t].pc \in {"major_lt", "major_gt", "minor_lt", "minor_gt", "subminor"}

\* C30: when several threads call __isOSVersionAtLeast around the first
\* call, every call compares its arguments with a fully populated host
\* version (none sees GlobalMajor set while GlobalMinor or GlobalSubminor
\* are still unset), so that it returns what a call made after the
\* initialisation has finished returns.
CallsSeeWholeVersion ==
  \A t \in Threads :
    /\ Comparing(t) =>
         <<GlobalMajor, GlobalMinor, GlobalSubminor>> = HostVersion
    /\ Answered(t) =>
         probe[t].ret = IF LexLeq(Asked(t), HostVersion) THEN 1 ELSE 0

====
